---- MODULE Spec2Model ----
(***************************************************************************)
(* Citation and resolution subsystem of the Thailand Law MCP server:       *)
(* parseCitation, formatCitation, validateCitation and the                 *)
(* validate_citation tool, over a read-only document / provision store.    *)
(*                                                                         *)
(* Strings are TLA+ strings read character by character.  The module's     *)
(* strings are ASCII, so the Thai literals of the source are written with  *)
(* one reserved character each; no input uses these characters otherwise:  *)
(*     "@"  stands for the section marker  (U+0E21 ... "matra")            *)
(*     "~"  stands for the year marker     ("pho.so.", Buddhist Era)       *)
(*     "&" "$" "#" "!" "+"  stand for the five keys of THAI_SHORT_MAP      *)
(*     "^"  stands for Thai title text that is in no table                 *)
(*     "{" "}"  stand for the typographic double quotes U+201C and U+201D  *)
(* None of them is whitespace, a digit, a letter, '-', '%' or '_', which   *)
(* is all the regular expressions and LIKE can tell about a Thai letter.   *)
(***************************************************************************)
EXTENDS Integers, Sequences, FiniteSets, TLC

VARIABLES db, op, citation, parsed, doc, validation, toolResult,
          format, formatted, inputId, resolved, query, variants,
          searchInput, searchResult, clock, previous, inputYear, converted, server, fetcher

vars == <<db, op, citation, parsed, doc, validation, toolResult,
          format, formatted, inputId, resolved, query, variants,
          searchInput, searchResult, clock, previous, inputYear, converted, server, fetcher>>

(***************************************************************************)
(* Bounds of the model.                                                    *)
(***************************************************************************)
\* longest run of blanks used between two parts of a generated citation
MaxBlanks == 2
\* most parenthesized groups in a generated pinpoint
MaxGroups == 2
\* most documents in a generated store
MaxDocs == 2
\* most provisions in a generated store
MaxProvs == 2
\* most blank-separated terms in a generated search query
MaxTerms == 2

(***************************************************************************)
(* Characters and strings.                                                 *)
(***************************************************************************)
Ch(s, i) == IF 1 <= i /\ i <= Len(s) THEN SubSeq(s, i, i) ELSE ""

EndOf(s) == Len(s) + 1

UpperChars == "ABCDEFGHIJKLMNOPQRSTUVWXYZ"
LowerChars == "abcdefghijklmnopqrstuvwxyz"
DigitChars == "0123456789"

UpperSet == {Ch(UpperChars, i) : i \in 1..26}
LowerSet == {Ch(LowerChars, i) : i \in 1..26}
DigitSet == {Ch(DigitChars, i) : i \in 1..10}

LowerMap == [c \in UpperSet |-> Ch(LowerChars, CHOOSE i \in 1..26 : Ch(UpperChars, i) = c)]
DigitVal == [c \in DigitSet |-> (CHOOSE i \in 1..10 : Ch(DigitChars, i) = c) - 1]

\* \s of the regular expressions and the blanks String.prototype.trim removes
IsWs(c) == c \in {" ", "\t"}

LowerCh(c) == IF c \in UpperSet THEN LowerMap[c] ELSE c

RECURSIVE ToLowerFrom(_, _)
ToLowerFrom(s, i) == IF i > Len(s) THEN "" ELSE LowerCh(Ch(s, i)) \o ToLowerFrom(s, i + 1)

\* String.prototype.toLowerCase
ToLower(s) == ToLowerFrom(s, 1)

RECURSIVE WsEnd(_, _)
\* position after the longest run of whitespace that starts at i  (\s*)
WsEnd(s, i) == IF IsWs(Ch(s, i)) THEN WsEnd(s, i + 1) ELSE i

RECURSIVE WsStart(_, _)
\* position of the first character of the whitespace run that ends at i
WsStart(s, i) == IF IsWs(Ch(s, i)) THEN WsStart(s, i - 1) ELSE i + 1

\* String.prototype.trim
Trim(s) ==
  LET a == WsEnd(s, 1)
      b == WsStart(s, Len(s)) - 1
  IN  IF a > b THEN "" ELSE SubSeq(s, a, b)

\* the literal x stands at position i of s
HasLit(s, i, x) == i >= 1 /\ i + Len(x) - 1 <= Len(s) /\ SubSeq(s, i, i + Len(x) - 1) = x

\* positions after an alternation of literals matched at i
LitEnds(s, i, lits) == {i + Len(x) : x \in {y \in lits : HasLit(s, i, y)}}

\* String.prototype.includes
Includes(s, x) == \E i \in 1..(Len(s) + 1) : HasLit(s, i, x) \/ x = ""

StartsWith(s, x) == HasLit(s, 1, x) \/ x = ""

RECURSIVE StrToIntAcc(_, _, _)
StrToIntAcc(s, i, acc) ==
  IF i > Len(s) THEN acc ELSE StrToIntAcc(s, i + 1, 10 * acc + DigitVal[Ch(s, i)])

\* parseInt(s, 10) of a string of digits
ParseInt(s) == StrToIntAcc(s, 1, 0)

RECURSIVE NatToStr(_)
NatToStr(n) == IF n < 10 THEN Ch(DigitChars, n + 1)
               ELSE NatToStr(n \div 10) \o Ch(DigitChars, (n % 10) + 1)

\* template-literal rendering of a number
IntToStr(n) == IF n < 0 THEN "-" \o NatToStr(0 - n) ELSE NatToStr(n)

Max(S) == CHOOSE x \in S : \A y \in S : y <= x
Min(S) == CHOOSE x \in S : \A y \in S : x <= y

(***************************************************************************)
(* Fragments of the citation regular expressions.  A position is the index *)
(* of the next character to read; 0 stands for "no match".                 *)
(***************************************************************************)
RECURSIVE DigitsEnd(_, _)
\* \d* read greedily from i
DigitsEnd(s, i) == IF Ch(s, i) \in DigitSet THEN DigitsEnd(s, i + 1) ELSE i

\* (?:\/\d+)? read greedily from i
SlashEnd(s, i) ==
  IF Ch(s, i) = "/" /\ DigitsEnd(s, i + 1) > i + 1 THEN DigitsEnd(s, i + 1) ELSE i

RECURSIVE GroupsEnd(_, _)
\* (?:\(\d+\))* read greedily from i
GroupsEnd(s, i) ==
  IF Ch(s, i) = "(" /\ DigitsEnd(s, i + 1) > i + 1 /\ Ch(s, DigitsEnd(s, i + 1)) = ")"
  THEN GroupsEnd(s, DigitsEnd(s, i + 1) + 1)
  ELSE i

\* (\d+(?:\/\d+)?(?:\(\d+\))*) read greedily from i.  Every regular
\* expression continues after it with whitespace, ',' or the end of the
\* input, which no shorter reading of the group reaches.
PinEnd(s, i) ==
  IF DigitsEnd(s, i) > i THEN GroupsEnd(s, SlashEnd(s, DigitsEnd(s, i))) ELSE 0

\* (\d{4}) at i
Year4(s, i) == \A k \in 0..3 : Ch(s, i + k) \in DigitSet

\* \s+ then the era marker then \s*, read from e; the position of the year
\* digits, or 0.  era: "be" is B\.?E\.? , "th" is the Thai marker, "ce" is
\* no marker at all.
EraYear(s, e, era) ==
  LET a == WsEnd(s, e)
      b1 == IF Ch(s, a + 1) = "." THEN a + 2 ELSE a + 1
      b2 == IF Ch(s, b1 + 1) = "." THEN b1 + 2 ELSE b1 + 1
      y == CASE era = "ce" -> a
             [] era = "th" -> IF Ch(s, a) = "~" THEN WsEnd(s, a + 1) ELSE 0
             [] era = "be" -> IF Ch(s, a) = "b" /\ Ch(s, b1) = "e" THEN WsEnd(s, b2) ELSE 0
  IN  IF a > e /\ y # 0 /\ Year4(s, y) THEN y ELSE 0

\* positions after the year at y and, for era "be", after (?:\s*\(\d{4}\))?
AfterYear(s, y, era) ==
  LET q == WsEnd(s, y + 4)
  IN  {y + 4} \cup
      (IF era = "be" /\ Ch(s, q) = "(" /\ Year4(s, q + 1) /\ Ch(s, q + 5) = ")"
       THEN {q + 6} ELSE {})

TrailMarkers == {"section", "s.", "s", "@"}

\* \s*,?\s*(?:Section|s\.?|<Thai marker>)\s*(pinpoint)$ read from r: the
\* position of the pinpoint, or 0
TrailPin(s, r) ==
  LET r1 == WsEnd(s, r)
      r2 == IF Ch(s, r1) = "," THEN WsEnd(s, r1 + 1) ELSE r1
      P == {p \in {WsEnd(s, m) : m \in LitEnds(s, r2, TrailMarkers)} :
              PinEnd(s, p) = EndOf(s)}
  IN  IF P = {} THEN 0 ELSE CHOOSE p \in P : TRUE

\* the positions at which the title can start when the separator
\* (\s*,?\s+ with comma, \s+ without) is read from a
SepEnds(s, a, comma) ==
  LET w1 == WsEnd(s, a)
  IN  ((a + 1)..w1) \cup
      (IF comma /\ Ch(s, w1) = "," THEN (w1 + 2)..WsEnd(s, w1 + 1) ELSE {})

NoMatch == [ok |-> FALSE]

\* ^marker\s+(pinpoint)sep(.+?)\s+era\s*(\d{4})...$  on the input t, whose
\* case-folded form is l.  The separator is greedy and the title lazy: the
\* backtracking search tries the latest title start first and, for it, the
\* earliest title end.
LeadingForm(t, l, markers, comma, era) ==
  LET A == {a \in {WsEnd(l, m) : m \in LitEnds(l, 1, markers)} :
              ~IsWs(Ch(l, a)) /\ IsWs(Ch(l, a - 1)) /\ PinEnd(l, a) # 0}
      a == CHOOSE x \in A : TRUE
      pe == PinEnd(l, a)
      E == {e \in 2..Len(l) :
              EraYear(l, e, era) # 0 /\ EndOf(l) \in AfterYear(l, EraYear(l, e, era), era)}
      S == {s \in SepEnds(l, pe, comma) : \E e \in E : e > s}
      s == Max(S)
      e == Min({x \in E : x > s})
      y == EraYear(l, e, era)
  IN  IF A = {} THEN NoMatch
      ELSE IF S = {} THEN NoMatch
      ELSE [ok |-> TRUE, pin |-> SubSeq(t, a, pe - 1), title |-> SubSeq(t, s, e - 1),
            year |-> SubSeq(t, y, y + 3)]

\* ^(.+?)\s+era\s*(\d{4})...\s*,?\s*marker\s*(pinpoint)$
TrailingForm(t, l, era) ==
  LET E == {e \in 2..Len(l) :
              EraYear(l, e, era) # 0 /\
              \E r \in AfterYear(l, EraYear(l, e, era), era) : TrailPin(l, r) # 0}
      e == Min(E)
      y == EraYear(l, e, era)
      p == CHOOSE x \in {TrailPin(l, r) : r \in AfterYear(l, y, era)} : x # 0
  IN  IF E = {} THEN NoMatch
      ELSE [ok |-> TRUE, pin |-> SubSeq(t, p, Len(t)), title |-> SubSeq(t, 1, e - 1),
            year |-> SubSeq(t, y, y + 3)]

(***************************************************************************)
(* The citation grammars (part_016, lines 83-105).  Each yields NoMatch or *)
(* the captured groups.  All but THAI_CITATION carry the /i flag and are   *)
(* matched on the case-folded input; the groups are cut from the input.    *)
(***************************************************************************)
THAI_CITATION(t) == LeadingForm(t, t, {"@"}, FALSE, "th")

ENGLISH_BE_CITATION(t) == LeadingForm(t, ToLower(t), {"section", "s.", "s"}, TRUE, "be")

ENGLISH_CE_CITATION(t) == LeadingForm(t, ToLower(t), {"section", "s.", "s"}, TRUE, "ce")

SHORT_CITATION(t) == LeadingForm(t, ToLower(t), {"s.", "s"}, TRUE, "ce")

TRAILING_SECTION_BE(t) == TrailingForm(t, ToLower(t), "be")

TRAILING_SECTION_CE(t) == TrailingForm(t, ToLower(t), "ce")

IsIdChar(c) == c \in LowerSet \/ c \in DigitSet \/ c = "-"

RECURSIVE IdRunEnd(_, _)
\* [a-z0-9-]* read greedily from i
IdRunEnd(s, i) == IF IsIdChar(Ch(s, i)) THEN IdRunEnd(s, i + 1) ELSE i

\* ^([a-z][a-z0-9-]+)\s*,?\s*(?:Section|s\.?|<Thai marker>)\s*(pinpoint)$
\* The identifier is greedy: the longest one after which the rest matches.
ID_BASED(t) ==
  LET l == ToLower(t)
      E == IF Ch(l, 1) \in LowerSet
           THEN {e \in 3..IdRunEnd(l, 1) : TrailPin(l, e) # 0}
           ELSE {}
      e == Max(E)
  IN  IF E = {} THEN NoMatch
      ELSE [ok |-> TRUE, id |-> SubSeq(t, 1, e - 1),
            pin |-> SubSeq(t, TrailPin(l, e), Len(t))]

\* (?:\((\d+)\))? read greedily from d
DigitGroupEnd(s, d) ==
  IF Ch(s, d) = "(" /\ DigitsEnd(s, d + 1) > d + 1 /\ Ch(s, DigitsEnd(s, d + 1)) = ")"
  THEN DigitsEnd(s, d + 1) + 1
  ELSE d

\* (?:\(([a-z])\))? read greedily from d1
LetterGroupEnd(s, d1) ==
  IF Ch(s, d1) = "(" /\ Ch(s, d1 + 1) \in LowerSet /\ Ch(s, d1 + 2) = ")"
  THEN d1 + 3
  ELSE d1

\* the groups of SECTION_REF when the number ends at d, the digit group at
\* d1 and the letter group at d2.  An optional group that was read greedily
\* is never given up: what it read holds no end of input.
SectionRefGroups(s, d, d1, d2) ==
  IF d2 # EndOf(s) THEN NoMatch
  ELSE [ok |-> TRUE, g |-> <<SubSeq(s, 1, d - 1),
                             IF d1 > d THEN SubSeq(s, d + 1, d1 - 2) ELSE "",
                             IF d2 > d1 THEN SubSeq(s, d1 + 1, d1 + 1) ELSE "">>]

SectionRefFrom(s, d) ==
  SectionRefGroups(s, d, DigitGroupEnd(s, d), LetterGroupEnd(s, DigitGroupEnd(s, d)))

\* ^(\d+(?:\/\d+)?)(?:\((\d+)\))?(?:\(([a-z])\))?$   (no /i flag)
SECTION_REF(s) ==
  IF DigitsEnd(s, 1) > 1 THEN SectionRefFrom(s, SlashEnd(s, DigitsEnd(s, 1))) ELSE NoMatch

(***************************************************************************)
(* Lookup tables (part_016, lines 107-123).                                *)
(***************************************************************************)
ABBREVIATION_MAP ==
  [k \in {"pdpa", "cca", "csa", "eta", "ccc"} |->
     CASE k = "pdpa" -> "Personal Data Protection Act"
       [] k = "cca" -> "Computer Crime Act"
       [] k = "csa" -> "Cybersecurity Act"
       [] k = "eta" -> "Electronic Transactions Act"
       [] k = "ccc" -> "Civil and Commercial Code"]

\* in the order of the object literal, which Object.entries keeps
THAI_SHORT_MAP ==
  << <<"&", "Personal Data Protection Act">>,
     <<"$", "Computer Crime Act">>,
     <<"#", "Cybersecurity Act">>,
     <<"!", "Electronic Transactions Act">>,
     <<"+", "Civil and Commercial Code">> >>

\* an absent optional field is a field the record does not have
Has(r, f) == f \in DOMAIN r

\* a record with the field f only when present holds
Opt(present, f, v) == IF present THEN f :> v ELSE <<>>

\* the first key contained in the Thai title decides; <<>> is undefined
resolveThaiTitle(thaiTitle) ==
  LET K == {i \in 1..Len(THAI_SHORT_MAP) : Includes(thaiTitle, THAI_SHORT_MAP[i][1])}
  IN  IF K = {} THEN <<>> ELSE <<THAI_SHORT_MAP[Min(K)][2]>>

resolveAbbreviation(abbrev) ==
  IF ToLower(abbrev) \in DOMAIN ABBREVIATION_MAP
  THEN <<ABBREVIATION_MAP[ToLower(abbrev)]>> ELSE <<>>

\* x ?? y for a lookup result
OrElse(x, y) == IF x = <<>> THEN y ELSE x[1]

(***************************************************************************)
(* parseSection and parseCitation (part_016, lines 125-241).               *)
(***************************************************************************)
\* lines 219-240: the pinpoint fields for the outcome of SECTION_REF
SectionFields(sectionStr, sectionMatch) ==
  IF ~sectionMatch.ok
  THEN [section |-> sectionStr]
  ELSE [section |-> sectionMatch.g[1]]
         @@ Opt(sectionMatch.g[2] # "", "subsection", sectionMatch.g[2])
         @@ Opt(sectionMatch.g[3] # "", "paragraph", sectionMatch.g[3])

parseSection(sectionStr, title, beYear, ceYear, type) ==
  [valid |-> TRUE, type |-> type, title |-> Trim(title),
   be_year |-> beYear, ce_year |-> ceYear]
    @@ SectionFields(sectionStr, SECTION_REF(sectionStr))

\* the threshold above which a bare 4-digit year is read as a B.E. year
BareYearThreshold == 2400

BE_OFFSET == 543

\* a year being the correct one less one
beToce_OffByOne(beYear) == beYear - BE_OFFSET - 1

\* beToce (part_015, scripts/lib/parser.ts): B.E. = C.E. + 543
beToce(beYear) == beYear - BE_OFFSET

\* ceToBe (part_015, scripts/lib/parser.ts)
ceToBe(ceYear) == ceYear + BE_OFFSET

BareCe(year) == IF year > BareYearThreshold THEN year - BE_OFFSET ELSE year
\* the B.E. reading of a bare year with 2400 itself taken as a B.E. year
BareBe_From2400(year) == IF year >= BareYearThreshold THEN year ELSE year + BE_OFFSET

BareBe(year) == IF year > BareYearThreshold THEN year ELSE year + BE_OFFSET

\* what each branch of parseCitation returns for its match m
FromThai(m) ==
  parseSection(m.pin, OrElse(resolveThaiTitle(Trim(m.title)), Trim(m.title)),
               ParseInt(m.year), ParseInt(m.year) - BE_OFFSET, "statute")

\* the English B.E. branch with the CE year one off
FromEnglishBE_OffByOne(m) ==
  parseSection(m.pin, m.title, ParseInt(m.year), ParseInt(m.year) - BE_OFFSET - 1, "statute")

FromEnglishBE(m) ==
  parseSection(m.pin, m.title, ParseInt(m.year), ParseInt(m.year) - BE_OFFSET, "statute")

FromTrailingBE(m) ==
  parseSection(m.pin, m.title, ParseInt(m.year), ParseInt(m.year) - BE_OFFSET, "statute")

FromShort(m) ==
  parseSection(m.pin, OrElse(resolveAbbreviation(Trim(m.title)), Trim(m.title)),
               BareBe(ParseInt(m.year)), BareCe(ParseInt(m.year)), "statute")

FromIdBased(m) ==
  [valid |-> TRUE, type |-> "statute", title |-> ToLower(m.id), section |-> m.pin]

FromEnglishCE(m) ==
  parseSection(m.pin, m.title, BareBe(ParseInt(m.year)), BareCe(ParseInt(m.year)), "statute")

FromTrailingCE(m) ==
  parseSection(m.pin, m.title, BareBe(ParseInt(m.year)), BareCe(ParseInt(m.year)), "statute")

\* the failure result with the unparsed input kept as title
ParseError_WithTitle(trimmed) ==
  [valid |-> FALSE, type |-> "unknown", title |-> trimmed,
   error |-> "Could not parse Thai citation: \"" \o trimmed \o "\""]

ParseError(trimmed) ==
  [valid |-> FALSE, type |-> "unknown",
   error |-> "Could not parse Thai citation: \"" \o trimmed \o "\""]

\* "const m = trimmed.match(R); if (m) { return ... }" for each regular
\* expression: the result for its match m, or else the rest of the function
IfThai(m, rest) == IF m.ok THEN FromThai(m) ELSE rest
IfEnglishBE(m, rest) == IF m.ok THEN FromEnglishBE(m) ELSE rest
IfTrailingBE(m, rest) == IF m.ok THEN FromTrailingBE(m) ELSE rest
IfShort(m, rest) == IF m.ok THEN FromShort(m) ELSE rest
IfIdBased(m, rest) == IF m.ok THEN FromIdBased(m) ELSE rest
IfEnglishCE(m, rest) == IF m.ok THEN FromEnglishCE(m) ELSE rest
IfTrailingCE(m, rest) == IF m.ok THEN FromTrailingCE(m) ELSE rest

\* lines 128-196 for the trimmed input, the short form tried before the
\* English B.E. form
ParseTrimmed_ShortFirst(trimmed) ==
  IfThai(THAI_CITATION(trimmed),
  IfShort(SHORT_CITATION(trimmed),
  IfEnglishBE(ENGLISH_BE_CITATION(trimmed),
  IfTrailingBE(TRAILING_SECTION_BE(trimmed),
  IfIdBased(ID_BASED(trimmed),
  IfEnglishCE(ENGLISH_CE_CITATION(trimmed),
  IfTrailingCE(TRAILING_SECTION_CE(trimmed),
  ParseError(trimmed))))))))

\* lines 128-196 for the trimmed input
ParseTrimmed(trimmed) ==
  IfThai(THAI_CITATION(trimmed),
  IfEnglishBE(ENGLISH_BE_CITATION(trimmed),
  IfTrailingBE(TRAILING_SECTION_BE(trimmed),
  IfShort(SHORT_CITATION(trimmed),
  IfIdBased(ID_BASED(trimmed),
  IfEnglishCE(ENGLISH_CE_CITATION(trimmed),
  IfTrailingCE(TRAILING_SECTION_CE(trimmed),
  ParseError(trimmed))))))))

\* parseCitation with the short form tried before the English B.E. form
parseCitation_ShortFirst(c) == ParseTrimmed_ShortFirst(Trim(c))

parseCitation(c) == ParseTrimmed(Trim(c))

(***************************************************************************)
(* formatCitation (part_017).                                              *)
(***************************************************************************)
\* a truthy optional string: present and not empty
Truthy(r, f) == Has(r, f) /\ r[f] # ""

\* ${r.f ?? ''} for a string field and for a number field
StrOrEmpty(r, f) == IF Has(r, f) THEN r[f] ELSE ""
NumOrEmpty(r, f) == IF Has(r, f) THEN IntToStr(r[f]) ELSE ""

\* buildPinpoint with the paragraph placed before the subsection
buildPinpoint_ParagraphFirst(p) ==
  StrOrEmpty(p, "section")
    \o (IF Truthy(p, "paragraph") THEN "(" \o p.paragraph \o ")" ELSE "")
    \o (IF Truthy(p, "subsection") THEN "(" \o p.subsection \o ")" ELSE "")

buildPinpoint(p) ==
  StrOrEmpty(p, "section")
    \o (IF Truthy(p, "subsection") THEN "(" \o p.subsection \o ")" ELSE "")
    \o (IF Truthy(p, "paragraph") THEN "(" \o p.paragraph \o ")" ELSE "")

FullEn(p) ==
  Trim("Section " \o buildPinpoint(p) \o ", " \o StrOrEmpty(p, "title") \o " B.E. "
         \o NumOrEmpty(p, "be_year") \o " (" \o NumOrEmpty(p, "ce_year") \o ")")

\* formatCitation with an unknown format rendered as the empty string
formatCitation_NoFallback(p, fmt) ==
  IF ~p.valid \/ ~Truthy(p, "section") THEN ""
  ELSE CASE fmt = "full_th" ->
              Trim("@ " \o buildPinpoint(p) \o " " \o StrOrEmpty(p, "title") \o " ~ "
                     \o NumOrEmpty(p, "be_year"))
         [] fmt = "full_en" -> FullEn(p)
         [] fmt = "short" ->
              Trim("s. " \o buildPinpoint(p) \o ", "
                     \o (IF Has(p, "abbreviation") THEN p.abbreviation ELSE StrOrEmpty(p, "title"))
                     \o " " \o NumOrEmpty(p, "ce_year"))
         [] fmt = "pinpoint" -> "s. " \o buildPinpoint(p)
         [] OTHER -> ""

formatCitation(p, fmt) ==
  IF ~p.valid \/ ~Truthy(p, "section") THEN ""
  ELSE CASE fmt = "full_th" ->
              Trim("@ " \o buildPinpoint(p) \o " " \o StrOrEmpty(p, "title") \o " ~ "
                     \o NumOrEmpty(p, "be_year"))
         [] fmt = "full_en" -> FullEn(p)
         [] fmt = "short" ->
              Trim("s. " \o buildPinpoint(p) \o ", "
                     \o (IF Has(p, "abbreviation") THEN p.abbreviation ELSE StrOrEmpty(p, "title"))
                     \o " " \o NumOrEmpty(p, "ce_year"))
         [] fmt = "pinpoint" -> "s. " \o buildPinpoint(p)
         [] OTHER -> FullEn(p)

(***************************************************************************)
(* The store (scripts/lib/parser.ts, lines 369-398) and the two queries of *)
(* validateCitation (part_018).  A NULL column is a field the row does not *)
(* have; a comparison with NULL is not true.                               *)
(***************************************************************************)
RECURSIVE LikeAt(_, _, _, _)
\* SQLite LIKE without ESCAPE: '%' is any run of characters, '_' is any one
\* character, ASCII letters compare without case
LikeAt(t, j, pat, i) ==
  IF i > Len(pat) THEN j > Len(t)
  ELSE IF Ch(pat, i) = "%" THEN \E k \in j..(Len(t) + 1) : LikeAt(t, k, pat, i + 1)
  ELSE /\ j <= Len(t)
       /\ (Ch(pat, i) = "_" \/ LowerCh(Ch(pat, i)) = LowerCh(Ch(t, j)))
       /\ LikeAt(t, j + 1, pat, i + 1)

\* row.col LIKE pat
ColLike(row, col, pat) == Has(row, col) /\ LikeAt(row[col], 1, pat, 1)

\* row.col = v
ColEq(row, col, v) == Has(row, col) /\ row[col] = v

\* WHERE clause of the document query (part_018, lines 31-34)
DocumentRowMatches(d, titleSearch, yearSearch) ==
  /\ \/ ColLike(d, "title", "%" \o titleSearch \o "%")
     \/ ColLike(d, "title_en", "%" \o titleSearch \o "%")
     \/ ColLike(d, "short_name", "%" \o titleSearch \o "%")
  /\ \/ ColEq(d, "be_year", yearSearch)
     \/ ColEq(d, "ce_year", yearSearch)
     \/ yearSearch = 0

\* WHERE clause of the provision query (part_018, lines 65-78)
ProvisionRowMatches(p, docId, provisionRef, pinpoint, allowPrefixMatch) ==
  /\ p.document_id = docId
  /\ \/ p.provision_ref = provisionRef
     \/ p.section = pinpoint
     \/ /\ allowPrefixMatch
        /\ \/ LikeAt(p.provision_ref, 1, provisionRef \o "(%", 1)
           \/ LikeAt(p.section, 1, pinpoint \o "(%", 1)

\* doc.title_en ?? doc.title
DocTitle(d) == IF Has(d, "title_en") THEN d.title_en ELSE d.title

(***************************************************************************)
(* resolveExistingStatuteId (part_015, lines 47-71).  A query with LIMIT 1 *)
(* and no ORDER BY returns any one of the matching rows.  An outcome is    *)
(* [id |-> the returned id, queries |-> the number of queries run], with   *)
(* no id field when null is returned.                                      *)
(***************************************************************************)
\* SELECT id FROM legal_documents WHERE id = ?
ExactRows(store, input) == {d \in store.documents : d.id = input}

\* SELECT id FROM legal_documents WHERE title LIKE ? OR title_en LIKE ?
TitleRows(store, input) ==
  {d \in store.documents :
     \/ ColLike(d, "title", "%" \o input \o "%")
     \/ ColLike(d, "title_en", "%" \o input \o "%")}

\* SELECT id FROM legal_documents WHERE short_name LIKE ?
ShortNameRows(store, input) ==
  {d \in store.documents : ColLike(d, "short_name", "%" \o input \o "%")}

resolveExistingStatuteId(store, input) ==
  IF ExactRows(store, input) # {}
  THEN {[id |-> d.id, queries |-> 1] : d \in ExactRows(store, input)}
  ELSE IF TitleRows(store, input) # {}
  THEN {[id |-> d.id, queries |-> 2] : d \in TitleRows(store, input)}
  ELSE IF ShortNameRows(store, input) # {}
  THEN {[id |-> d.id, queries |-> 3] : d \in ShortNameRows(store, input)}
  ELSE {[queries |-> 3]}

(***************************************************************************)
(* buildFtsQueryVariants (part_016, lines 11-69).                          *)
(***************************************************************************)
MAX_QUERY_LENGTH == 1000

\* s.slice(0, n)
Slice(s, n) == IF Len(s) <= n THEN s ELSE SubSeq(s, 1, n)

\* \w of a regular expression without the u flag
IsWordCh(c) == c \in UpperSet \cup LowerSet \cup DigitSet \cup {"_"}

\* \bw\b matches at position i of t
WordAt(t, i, w) ==
  /\ HasLit(t, i, w)
  /\ ~IsWordCh(Ch(t, i - 1))
  /\ ~IsWordCh(Ch(t, i + Len(w)))

\* the character class of three straight double quotes, the three operators
\* between word boundaries, and the asterisk at the end of the input
EXPLICIT_FTS_SYNTAX(t) ==
  \/ \E i \in 1..Len(t) : Ch(t, i) = "\""
  \/ \E i \in 1..Len(t) : WordAt(t, i, "AND")
  \/ \E i \in 1..Len(t) : WordAt(t, i, "OR")
  \/ \E i \in 1..Len(t) : WordAt(t, i, "NOT")
  \/ (Len(t) > 0 /\ Ch(t, Len(t)) = "*")

\* the middle of the positions a..b: the character-wise replacements below
\* work on the two halves of a range, which keeps the nesting shallow on a
\* text of MAX_QUERY_LENGTH characters
Mid(a, b) == (a + b) \div 2

RECURSIVE SmartQuotesIn(_, _, _)
\* .replace(/[“”]/g, '"') on the positions a..b
SmartQuotesIn(s, a, b) ==
  IF a > b THEN ""
  ELSE IF a = b THEN (IF Ch(s, a) \in {"{", "}"} THEN "\"" ELSE Ch(s, a))
  ELSE SmartQuotesIn(s, a, Mid(a, b)) \o SmartQuotesIn(s, Mid(a, b) + 1, b)

RECURSIVE SemicolonsIn(_, _, _)
\* .replace(/;/g, '') on the positions a..b
SemicolonsIn(s, a, b) ==
  IF a > b THEN ""
  ELSE IF a = b THEN (IF Ch(s, a) = ";" THEN "" ELSE Ch(s, a))
  ELSE SemicolonsIn(s, a, Mid(a, b)) \o SemicolonsIn(s, Mid(a, b) + 1, b)

RECURSIVE DashRunStart(_, _)
\* first position of the run of '-' that holds position i
DashRunStart(s, i) == IF Ch(s, i - 1) = "-" THEN DashRunStart(s, i - 1) ELSE i

\* /--/g matches from left to right without overlap: in a run of '-' the
\* matches start at the first, third, ... character, so a '-' is in a match
\* when it stands at an even place of its run or has a '-' after it
InCommentMatch(s, i) ==
  Ch(s, i) = "-" /\ ((i - DashRunStart(s, i)) % 2 = 1 \/ Ch(s, i + 1) = "-")

RECURSIVE CommentsIn(_, _, _)
\* .replace(/--/g, '') on the positions a..b
CommentsIn(s, a, b) ==
  IF a > b THEN ""
  ELSE IF a = b THEN (IF InCommentMatch(s, a) THEN "" ELSE Ch(s, a))
  ELSE CommentsIn(s, a, Mid(a, b)) \o CommentsIn(s, Mid(a, b) + 1, b)

SmartQuotes(s) == SmartQuotesIn(s, 1, Len(s))
Semicolons(s) == SemicolonsIn(s, 1, Len(s))
Comments(s) == CommentsIn(s, 1, Len(s))

\* the chain of replacements and the second slice
Normalise(trimmed) == Slice(Comments(Semicolons(SmartQuotes(trimmed))), MAX_QUERY_LENGTH)

\* (normalised.match(/"/g) ?? []).length
QuoteCount(s) == Cardinality({i \in 1..Len(s) : Ch(s, i) = "\""})

\* the normalised text left as it is although its quotes are unbalanced
BalanceQuotes_Never(normalised) == normalised

BalanceQuotes(normalised) ==
  IF QuoteCount(normalised) % 2 # 0 THEN normalised \o "\"" ELSE normalised

\* \p{L} and \p{N} over the characters of the model
IsLetterOrNumber(c) == c \in UpperSet \cup LowerSet \cup DigitSet \cup {"^"}

RECURSIVE SanitiseIn(_, _, _)
\* .replace(/[^\p{L}\p{N}_-]/gu, '') on the positions a..b
SanitiseIn(token, a, b) ==
  IF a > b THEN ""
  ELSE IF a = b
  THEN (IF IsLetterOrNumber(Ch(token, a)) \/ Ch(token, a) \in {"_", "-"}
        THEN Ch(token, a) ELSE "")
  ELSE SanitiseIn(token, a, Mid(a, b)) \o SanitiseIn(token, Mid(a, b) + 1, b)

sanitiseToken(token) == SanitiseIn(token, 1, Len(token))

\* position after the run of non-blank characters that starts at i
TokenEnd(s, i) == Min({j \in i..Len(s) : IsWs(Ch(s, j))} \cup {Len(s) + 1})

RECURSIVE TokensFrom(_, _)
\* split(/\s+/), the empty pieces dropped, each piece sanitised, the empty
\* results dropped
TokensFrom(s, i) ==
  IF i > Len(s) THEN <<>>
  ELSE IF IsWs(Ch(s, i)) THEN TokensFrom(s, i + 1)
  ELSE (IF sanitiseToken(SubSeq(s, i, TokenEnd(s, i) - 1)) = "" THEN <<>>
        ELSE <<sanitiseToken(SubSeq(s, i, TokenEnd(s, i) - 1))>>)
         \o TokensFrom(s, TokenEnd(s, i))

RECURSIVE PrimaryFrom(_, _)
\* tokens.map(t => `"${t}"*`).join(' ')
PrimaryFrom(tokens, i) ==
  IF i > Len(tokens) THEN ""
  ELSE (IF i > 1 THEN " " ELSE "") \o "\"" \o tokens[i] \o "\"*" \o PrimaryFrom(tokens, i + 1)

RECURSIVE FallbackFrom_And(_, _)
\* the fallback joined by conjunction
FallbackFrom_And(tokens, i) ==
  IF i > Len(tokens) THEN ""
  ELSE (IF i > 1 THEN " AND " ELSE "") \o tokens[i] \o "*" \o FallbackFrom_And(tokens, i + 1)

RECURSIVE FallbackFrom(_, _)
\* tokens.map(t => `${t}*`).join(' OR ')
FallbackFrom(tokens, i) ==
  IF i > Len(tokens) THEN ""
  ELSE (IF i > 1 THEN " OR " ELSE "") \o tokens[i] \o "*" \o FallbackFrom(tokens, i + 1)

NaturalVariants(tokens) ==
  IF Len(tokens) = 0 THEN [primary |-> "\"\""]
  ELSE [primary |-> PrimaryFrom(tokens, 1), fallback |-> FallbackFrom(tokens, 1)]

VariantsOfTrimmed(trimmed) ==
  IF Len(trimmed) = 0 THEN [primary |-> "\"\""]
  ELSE IF EXPLICIT_FTS_SYNTAX(trimmed) THEN [primary |-> BalanceQuotes(Normalise(trimmed))]
  ELSE NaturalVariants(TokensFrom(trimmed, 1))

buildFtsQueryVariants(q) == VariantsOfTrimmed(Slice(Trim(q), MAX_QUERY_LENGTH))

(***************************************************************************)
(* The provisions_fts index (scripts/lib/parser.ts, lines 403-409): SQLite *)
(* FTS5 with the unicode61 tokenizer over the content of a provision.  The  *)
(* query language is modelled for terms (bare or quoted, with or without a *)
(* final star) joined by blanks, AND, OR and NOT; a query outside the      *)
(* grammar makes the statement throw.                                      *)
(***************************************************************************)
RECURSIVE WordEnd(_, _)
\* position after the run of letters and digits that starts at i
WordEnd(s, i) == IF IsLetterOrNumber(Ch(s, i)) THEN WordEnd(s, i + 1) ELSE i

RECURSIVE WordsFrom(_, _)
\* unicode61: the runs of letters and digits, in lower case
WordsFrom(s, i) ==
  IF i > Len(s) THEN <<>>
  ELSE IF ~IsLetterOrNumber(Ch(s, i)) THEN WordsFrom(s, i + 1)
  ELSE <<ToLower(SubSeq(s, i, WordEnd(s, i) - 1))>> \o WordsFrom(s, WordEnd(s, i))

Words(s) == WordsFrom(s, 1)

\* positions of the double quotes after position i
QuotesAfter(s, i) == {j \in (i + 1)..Len(s) : Ch(s, j) = "\""}

\* position after the item that starts at i: a quoted string with its star,
\* or a run of non-blank characters; 0 for an unterminated string
ItemEnd(s, i) ==
  IF Ch(s, i) # "\"" THEN TokenEnd(s, i)
  ELSE IF QuotesAfter(s, i) = {} THEN 0
  ELSE IF Ch(s, Min(QuotesAfter(s, i)) + 1) = "*" THEN Min(QuotesAfter(s, i)) + 2
  ELSE Min(QuotesAfter(s, i)) + 1

RECURSIVE ItemsFrom(_, _)
\* the items of an index query; an unterminated string is kept as one item
ItemsFrom(s, i) ==
  IF i > Len(s) THEN <<>>
  ELSE IF IsWs(Ch(s, i)) THEN ItemsFrom(s, i + 1)
  ELSE IF ItemEnd(s, i) = 0 THEN <<SubSeq(s, i, Len(s))>>
  ELSE <<SubSeq(s, i, ItemEnd(s, i) - 1)>> \o ItemsFrom(s, ItemEnd(s, i))

IsOperator(item) == item \in {"AND", "OR", "NOT"}

IsStarred(item) == Ch(item, Len(item)) = "*"

\* the item without its final star
TermBody(item) == IF IsStarred(item) THEN SubSeq(item, 1, Len(item) - 1) ELSE item

IsQuoted(body) ==
  /\ Len(body) >= 2 /\ Ch(body, 1) = "\"" /\ Ch(body, Len(body)) = "\""
  /\ \A i \in 2..(Len(body) - 1) : Ch(body, i) # "\""

\* a bareword holds letters, digits and '_' only: 'a-b' is read as a column
\* filter and fails with "no such column"
IsBareword(body) ==
  /\ Len(body) > 0
  /\ \A i \in 1..Len(body) : IsLetterOrNumber(Ch(body, i)) \/ Ch(body, i) = "_"

IsTerm(item) == IsQuoted(TermBody(item)) \/ IsBareword(TermBody(item))

\* the query parses: terms, with single operators between two of them
Fts5SyntaxOk(items) ==
  /\ Len(items) > 0
  /\ \A k \in 1..Len(items) :
       IF IsOperator(items[k])
       THEN 1 < k /\ k < Len(items) /\ ~IsOperator(items[k - 1])
       ELSE IsTerm(items[k])

\* the words of the phrase stand at k in the text, the last one as a prefix
\* when the term is starred
PhraseAt(words, k, phrase, starred) ==
  \A j \in 1..Len(phrase) :
     IF starred /\ j = Len(phrase) THEN StartsWith(words[k + j - 1], phrase[j])
     ELSE words[k + j - 1] = phrase[j]

PhraseMatches(words, phrase, starred) ==
  /\ Len(phrase) > 0
  /\ \E k \in 1..(Len(words) - Len(phrase) + 1) : PhraseAt(words, k, phrase, starred)

TermMatches(words, item) == PhraseMatches(words, Words(TermBody(item)), IsStarred(item))

\* every term of the items a..b matches, a term after NOT does not
GroupHolds(words, items, a, b) ==
  \A j \in a..b :
     ~IsOperator(items[j])
       => (TermMatches(words, items[j]) # (j > a /\ items[j - 1] = "NOT"))

\* the positions that bound the groups joined by OR
OrBounds(items) == {0, Len(items) + 1} \cup {k \in 1..Len(items) : items[k] = "OR"}

Fts5Holds(words, items) ==
  \E p, q \in OrBounds(items) :
     /\ p < q /\ \A r \in OrBounds(items) : ~(p < r /\ r < q)
     /\ GroupHolds(words, items, p + 1, q - 1)

\* provisions_fts MATCH ftsQuery, for the row of a provision
Fts5Match(content, ftsQuery) == Fts5Holds(Words(content), ItemsFrom(ftsQuery, 1))

\* the statement throws on this query
Fts5Throws(ftsQuery) == ~Fts5SyntaxOk(ItemsFrom(ftsQuery, 1))

(***************************************************************************)
(* searchLegislation (tools/search-legislation.ts) and buildLegalStance    *)
(* (tools/build-legal-stance.ts).  The outcome of a call is its result     *)
(* with, as executed, the index queries in the order they were run; thrown *)
(* is true when a statement threw and the call returned nothing.           *)
(***************************************************************************)
SEARCH_DEFAULT_LIMIT == 10
SEARCH_MAX_LIMIT == 50
STANCE_DEFAULT_LIMIT == 5
STANCE_MAX_LIMIT == 20

\* Math.min(Math.max(input.limit ?? dflt, 1), max)
ClampLimit(input, dflt, max) ==
  Min({Max({IF Has(input, "limit") THEN input.limit ELSE dflt, 1}), max})

\* the joined row of a provision and its document passes the WHERE clause
HitRow(store, p, ftsQuery, input, byStatus) ==
  /\ Fts5Match(p.content, ftsQuery)
  /\ \E d \in store.documents :
        /\ d.id = p.document_id
        /\ byStatus /\ Truthy(input, "status") => d.status = input.status
  /\ Truthy(input, "document_id") => p.document_id = input.document_id

\* the selected columns; document_title is ld.title_en, or with coalesce
\* COALESCE(ld.title_en, ld.title)
Hit(d, p, coalesce) ==
  [document_id |-> p.document_id, provision_ref |-> p.provision_ref, section |-> p.section]
    @@ (IF Has(d, "title_en") THEN "document_title" :> d.title_en
        ELSE IF coalesce THEN "document_title" :> d.title ELSE <<>>)

RECURSIVE HitsFrom(_, _, _, _, _)
\* ORDER BY relevance: bm25 is a function of the index and the query, here
\* the order of RelevanceOrder
HitsFrom(store, order, k, S, coalesce) ==
  IF k > Len(order) THEN <<>>
  ELSE (IF order[k] \in S
        THEN <<Hit(CHOOSE d \in store.documents : d.id = order[k].document_id,
                   order[k], coalesce)>>
        ELSE <<>>)
         \o HitsFrom(store, order, k + 1, S, coalesce)

\* ... LIMIT n
Limit(rows, n) == SubSeq(rows, 1, Min({n, Len(rows)}))

\* db.prepare(sql).all(ftsQuery, ...params) of either tool
AllRows(store, order, ftsQuery, input, byStatus, coalesce, n) ==
  Limit(HitsFrom(store, order, 1,
                 {p \in store.provisions : HitRow(store, p, ftsQuery, input, byStatus)},
                 coalesce), n)

\* the fallback run whenever it exists, and its rows returned
RunVariants_FallbackAlways(store, order, v, input, byStatus, coalesce, n) ==
  IF Fts5Throws(v.primary) THEN [thrown |-> TRUE, executed |-> <<v.primary>>]
  ELSE IF ~Truthy(v, "fallback")
  THEN [thrown |-> FALSE, executed |-> <<v.primary>>,
        rows |-> AllRows(store, order, v.primary, input, byStatus, coalesce, n)]
  ELSE IF Fts5Throws(v.fallback) THEN [thrown |-> TRUE, executed |-> <<v.primary, v.fallback>>]
  ELSE [thrown |-> FALSE, executed |-> <<v.primary, v.fallback>>,
        rows |-> AllRows(store, order, v.fallback, input, byStatus, coalesce, n)]

\* the primary query, then the fallback when the primary found nothing and a
\* fallback exists
RunVariants(store, order, v, input, byStatus, coalesce, n) ==
  IF Fts5Throws(v.primary) THEN [thrown |-> TRUE, executed |-> <<v.primary>>]
  ELSE IF Len(AllRows(store, order, v.primary, input, byStatus, coalesce, n)) > 0
          \/ ~Truthy(v, "fallback")
  THEN [thrown |-> FALSE, executed |-> <<v.primary>>,
        rows |-> AllRows(store, order, v.primary, input, byStatus, coalesce, n)]
  ELSE IF Fts5Throws(v.fallback) THEN [thrown |-> TRUE, executed |-> <<v.primary, v.fallback>>]
  ELSE [thrown |-> FALSE, executed |-> <<v.primary, v.fallback>>,
        rows |-> AllRows(store, order, v.fallback, input, byStatus, coalesce, n)]

\* !input.query || input.query.trim().length === 0
BlankQuery(input) == ~Truthy(input, "query") \/ Trim(input.query) = ""

STALENESS_THRESHOLD_DAYS == 30

\* generateResponseMetadata (utils/metadata.ts): daysSince is
\* Math.floor((Date.now() - builtDate.getTime()) / 86400000)
generateResponseMetadata(daysSince) ==
  [data_freshness |->
     IF daysSince > STALENESS_THRESHOLD_DAYS
     THEN "WARNING: Database is " \o IntToStr(daysSince) \o " days old. Data may be outdated."
     ELSE "Database built " \o IntToStr(daysSince) \o " day(s) ago."]

SearchOutcome(o, daysSince) ==
  IF o.thrown THEN o
  ELSE [thrown |-> FALSE, executed |-> o.executed, results |-> o.rows,
        metadata |-> generateResponseMetadata(daysSince)]

searchLegislation(store, order, input, daysSince) ==
  IF BlankQuery(input)
  THEN [thrown |-> FALSE, executed |-> <<>>, results |-> <<>>,
        metadata |-> generateResponseMetadata(daysSince)]
  ELSE SearchOutcome(RunVariants(store, order, buildFtsQueryVariants(input.query), input, TRUE,
                                 FALSE, ClampLimit(input, SEARCH_DEFAULT_LIMIT, SEARCH_MAX_LIMIT)),
                     daysSince)

StanceOutcome(o, input, daysSince) ==
  IF o.thrown THEN o
  ELSE [thrown |-> FALSE, executed |-> o.executed,
        results |-> [query |-> input.query, provisions |-> o.rows,
                     total_citations |-> Len(o.rows)],
        metadata |-> generateResponseMetadata(daysSince)]

buildLegalStance(store, order, input, daysSince) ==
  IF BlankQuery(input)
  THEN [thrown |-> FALSE, executed |-> <<>>,
        results |-> [query |-> "", provisions |-> <<>>, total_citations |-> 0],
        metadata |-> generateResponseMetadata(daysSince)]
  ELSE StanceOutcome(RunVariants(store, order, buildFtsQueryVariants(input.query), input, FALSE,
                                 TRUE, ClampLimit(input, STANCE_DEFAULT_LIMIT, STANCE_MAX_LIMIT)),
                     input, daysSince)

(***************************************************************************)
(* validateCitation (part_018).                                            *)
(***************************************************************************)
\* the early return handing back the still empty warnings list
ParseFailureResult_NoDiagnostic(p) ==
  [citation |-> p, document_exists |-> FALSE, provision_exists |-> FALSE, warnings |-> <<>>]

\* lines 17-24
ParseFailureResult(p) ==
  [citation |-> p, document_exists |-> FALSE, provision_exists |-> FALSE,
   warnings |-> <<IF Has(p, "error") THEN p.error ELSE "Invalid citation format">>]

\* lines 40-47
NotFoundResult(p, titleSearch) ==
  [citation |-> p, document_exists |-> FALSE, provision_exists |-> FALSE,
   warnings |-> <<"Document \"" \o titleSearch \o "\" not found in database">>]

\* lines 49-51
StatusWarnings(d) ==
  IF d.status = "repealed" THEN <<"This statute has been repealed">> ELSE <<>>

\* lines 56-60
ValidatorPinpoint(p) ==
  p.section
    \o (IF Truthy(p, "subsection") THEN "(" \o p.subsection \o ")" ELSE "")
    \o (IF Truthy(p, "paragraph") THEN "(" \o p.paragraph \o ")" ELSE "")

\* line 62
AllowPrefixMatch(p) == ~Has(p, "subsection") /\ ~Has(p, "paragraph")

\* lines 64-87
ProvisionFound(store, d, p) ==
  \E row \in store.provisions :
     ProvisionRowMatches(row, d.id, "s" \o ValidatorPinpoint(p), ValidatorPinpoint(p),
                         AllowPrefixMatch(p))

\* the missing-provision warning put in front of the list (unshift for push)
ProvisionWarnings_Prepend(warnings, d, p) ==
  <<"Section " \o ValidatorPinpoint(p) \o " not found in " \o DocTitle(d)>> \o warnings

\* lines 89-91
ProvisionWarnings(warnings, d, p) ==
  Append(warnings, "Section " \o ValidatorPinpoint(p) \o " not found in " \o DocTitle(d))

\* lines 49-101
FoundResult(store, p, d) ==
  LET checked == Truthy(p, "section")
      provisionExists == checked /\ ProvisionFound(store, d, p)
      warnings == IF checked /\ ~provisionExists
                  THEN ProvisionWarnings(StatusWarnings(d), d, p)
                  ELSE StatusWarnings(d)
  IN  [citation |-> p, document_exists |-> TRUE, provision_exists |-> provisionExists,
       document_title |-> DocTitle(d), status |-> d.status, warnings |-> warnings]

\* line 27 and line 28
TitleSearch(p) == IF Has(p, "title") THEN p.title ELSE ""
YearSearch(p) ==
  IF Has(p, "be_year") THEN p.be_year ELSE IF Has(p, "ce_year") THEN p.ce_year ELSE 0

\* The outcomes of validateCitation: the row the document query returned
\* (<<>> when none) and the result.  LIMIT 1 without ORDER BY returns any
\* one of the matching rows.
\* lines 16-101: what follows the parse, for its result p
ValidateParsed(store, p) ==
  LET rows == {d \in store.documents : DocumentRowMatches(d, TitleSearch(p), YearSearch(p))}
  IN  IF ~p.valid THEN {[doc |-> <<>>, result |-> ParseFailureResult(p)]}
      ELSE IF rows = {} THEN {[doc |-> <<>>, result |-> NotFoundResult(p, TitleSearch(p))]}
      ELSE {[doc |-> d, result |-> FoundResult(store, p, d)] : d \in rows}

\* line 14: the citation is parsed once
validateCitation(store, c) ==
  UNION {ValidateParsed(store, p) : p \in {parseCitation(c)}}

(***************************************************************************)
(* validateCitationTool (part_008): the results member of the response.    *)
(***************************************************************************)
\* valid computed without the provision flag
ToolValid_NoProvision(result) == result.citation.valid /\ result.document_exists

\* line 51
ToolValid(result) ==
  result.citation.valid /\ result.document_exists /\ result.provision_exists

\* lines 30-42
EmptyCitationResults(c) ==
  [citation |-> c, formatted_citation |-> "", valid |-> FALSE, document_exists |-> FALSE,
   provision_exists |-> FALSE, warnings |-> <<"Empty citation">>]

\* lines 44-59
ToolResults(c, result) ==
  [citation |-> c, formatted_citation |-> formatCitation(result.citation, "full_en"),
   valid |-> ToolValid(result), document_exists |-> result.document_exists,
   provision_exists |-> result.provision_exists, warnings |-> result.warnings]
    @@ Opt(Has(result, "document_title"), "document_title", result.document_title)
    @@ Opt(Has(result, "status"), "status", result.status)

\* the tool without its early exit
validateCitationTool_NoEarlyExit(store, c) ==
  {[doc |-> o.doc, result |-> o.result, results |-> ToolResults(c, o.result)] :
     o \in validateCitation(store, c)}

validateCitationTool(store, c) ==
  IF Len(Trim(c)) = 0
  THEN {[doc |-> <<>>, result |-> <<>>, results |-> EmptyCitationResults(c)]}
  ELSE {[doc |-> o.doc, result |-> o.result, results |-> ToolResults(c, o.result)] :
          o \in validateCitation(store, c)}

\* formatCitationTool after its early exit, p being parseCitation(input.citation)
FormatParsed(input, p) ==
  IF ~p.valid
  THEN [parsed |-> p,
        results |-> [input |-> input.citation, formatted |-> input.citation,
                     type |-> "unknown", valid |-> FALSE]
                      @@ Opt(Has(p, "error"), "error", p.error)]
  ELSE [parsed |-> p,
        results |-> [input |-> input.citation,
                     formatted |-> formatCitation(p, IF Has(input, "format") THEN input.format
                                                     ELSE "full_en"),
                     type |-> p.type, valid |-> TRUE]]

\* formatCitationTool (part_011): the parse it made, <<>> when it made none,
\* and the results it returned; input is { citation, format? }
formatCitationTool(input) ==
  IF Len(Trim(input.citation)) = 0
  THEN [parsed |-> <<>>,
        results |-> [input |-> "", formatted |-> "", type |-> "unknown", valid |-> FALSE,
                     error |-> "Empty citation"]]
  ELSE FormatParsed(input, parseCitation(input.citation))

(***************************************************************************)
(* Inputs: citations put together from the parts the grammars tell apart.  *)
(***************************************************************************)
RECURSIVE Blanks(_)
Blanks(n) == IF n = 0 THEN "" ELSE " " \o Blanks(n - 1)

RECURSIVE GroupChain(_)
\* "(1)(2)...(k)"
GroupChain(k) == IF k = 0 THEN "" ELSE GroupChain(k - 1) \o "(" \o IntToStr(k) \o ")"

Pinpoints == {"3" \o GroupChain(k) : k \in 0..MaxGroups} \cup {"19/1", "3(1)(a)"}

LeadMarkerTexts == {"Section", "s.", "S", "@"}

LeadSeps == {Blanks(k) : k \in 1..MaxBlanks} \cup {", ", ",", " ,"}

TitleTexts == {"Personal Data Protection Act", "PDPA", "&", "^", "%", ""}

TitleGaps == {Blanks(k) : k \in 1..MaxBlanks}

YearTails ==
  {"B.E. 2562", "BE2562", "B.E. 2562 (2019)", "B.E. 2562 (1999)", "~ 2562", "2019", "2400",
   "2401"}

TrailSeps == {", ", " ", ""}

TrailMarkerTexts == {"s. ", "Section ", "s", "@ "}

IdTexts == {"pdpa-be2562", "PDPA-BE2562", "act", "x"}

LeadingInputs ==
  {m \o " " \o p \o s \o t \o g \o y :
     m \in LeadMarkerTexts, p \in Pinpoints, s \in LeadSeps, t \in TitleTexts,
     g \in TitleGaps, y \in YearTails}

TrailingInputs ==
  {t \o g \o y \o s \o m \o p :
     t \in TitleTexts, g \in TitleGaps, y \in YearTails, s \in TrailSeps,
     m \in TrailMarkerTexts, p \in Pinpoints}

IdInputs ==
  {i \o s \o m \o p : i \in IdTexts, s \in TrailSeps, m \in TrailMarkerTexts, p \in Pinpoints}

OtherInputs ==
  {"", " ", "garbage text", "some random text", "pdpas3",
   " Section 3, Personal Data Protection Act B.E. 2562 ", "\ts. 3, PDPA 2019 "}

ParserInputs == LeadingInputs \cup TrailingInputs \cup IdInputs \cup OtherInputs

\* citations given to the validator
ValidatorPinpoints == {"3" \o GroupChain(k) : k \in 0..MaxGroups}

ValidatorTitles ==
  {"Personal Data Protection Act", "personal data", "Fictional Act", "%", "P_PA"}

ValidatorInputs ==
  {"Section " \o p \o ", " \o t \o " B.E. " \o y :
     p \in ValidatorPinpoints, t \in ValidatorTitles, y \in {"2562", "2599"}}
    \cup {"s. " \o p \o ", PDPA 2019" : p \in ValidatorPinpoints}
    \cup {"@ " \o p \o " " \o t \o " ~ 2562" : p \in ValidatorPinpoints, t \in {"&", "^"}}
    \cup {i \o ", s. " \o p : i \in {"pdpa-be2562", "act"}, p \in ValidatorPinpoints}
    \cup {"", "  ", "garbage text"}

\* an optional field f with one of the values of V, or absent
OptField(f, V) == {<<>>} \cup {f :> v : v \in V}

\* ParsedCitation objects (types, ParsedCitation) given to the formatter
ParsedCitations ==
  {[valid |-> v, type |-> "statute"] @@ s @@ ss @@ pa @@ t @@ a @@ b @@ c :
     v \in BOOLEAN,
     s \in OptField("section", {"", "3", "19/1"}),
     ss \in OptField("subsection", {"", "1"}),
     pa \in OptField("paragraph", {"a"}),
     t \in OptField("title", {"Personal Data Protection Act"}),
     a \in OptField("abbreviation", {"PDPA"}),
     b \in OptField("be_year", {2562}),
     c \in OptField("ce_year", {2019})}

\* the four values of CitationFormat and one that is none of them
Formats == {"full_th", "full_en", "short", "pinpoint", "bluebook"}

(***************************************************************************)
(* Stores: rows of legal_documents and legal_provisions.                   *)
(***************************************************************************)
Pdpa(status) ==
  [id |-> "pdpa-be2562", title |-> "^ ~ 2562",
   title_en |-> "Personal Data Protection Act B.E. 2562 (2019)",
   short_name |-> "PDPA 2019", status |-> status, be_year |-> 2562, ce_year |-> 2019]

Cca ==
  [id |-> "cca-be2550", title |-> "= ~ 2550",
   title_en |-> "Computer Crime Act B.E. 2550 (2007)",
   short_name |-> "CCA 2007", status |-> "amended", be_year |-> 2550, ce_year |-> 2007]

\* a row whose be_year, title_en and short_name are NULL
PdpaCeOnly ==
  [id |-> "pdpa-2019", title |-> "Personal Data Protection Act", status |-> "in_force",
   ce_year |-> 2019]

DocumentCatalogue ==
  {Pdpa("in_force"), Pdpa("repealed"), Pdpa("amended"), Cca, PdpaCeOnly}

\* the text of a provision of the catalogue
ProvisionText(docId, section) ==
  IF docId = "cca-be2550" THEN "illegally accesses a computer system"
  ELSE IF section = "3" THEN "\"personal data\" means any information"
  ELSE IF section = "30" THEN "the data subject may request access"
  ELSE "consent of the data-subject"

\* the ingestion writes provision_ref as 's' followed by the section
\* (scripts/lib/parser.ts, lines 170-172)
Provision(docId, section) ==
  [document_id |-> docId, provision_ref |-> "s" \o section, section |-> section,
   content |-> ProvisionText(docId, section)]

ProvisionCatalogue ==
  {Provision("pdpa-be2562", x) : x \in {"3", "30", "3(1)", "3(1)(2)", "3(1)(2)(3)"}}
    \cup {Provision("pdpa-2019", x) : x \in {"3", "3(1)"}}
    \cup {Provision("cca-be2550", "3")}

\* id is the primary key; document_id references legal_documents(id)
Stores ==
  {[documents |-> D, provisions |-> P] :
     D \in {X \in SUBSET DocumentCatalogue :
              Cardinality(X) <= MaxDocs /\ \A a, b \in X : a.id = b.id => a = b},
     P \in {Y \in SUBSET ProvisionCatalogue : Cardinality(Y) <= MaxProvs}}

WellFormedStore(store) ==
  \A p \in store.provisions : \E d \in store.documents : d.id = p.document_id

\* the store of the test fixture, cut down to the rows of the model
FixtureStore ==
  [documents |-> {Pdpa("in_force"), Cca},
   provisions |-> {Provision("pdpa-be2562", "3"), Provision("cca-be2550", "3")}]

\* two acts of which the second carries the id of the first in its titles
Csa ==
  [id |-> "csa", title |-> "Cybersecurity Act", title_en |-> "Cybersecurity Act",
   short_name |-> "CSA 2019", status |-> "in_force", be_year |-> 2562, ce_year |-> 2019]

CsaAmendment ==
  [id |-> "csa-2", title |-> "Act amending CSA", title_en |-> "CSA Amendment Act",
   short_name |-> "CSA (No. 2)", status |-> "in_force"]

\* the stores the resolver is run on
ResolverStores ==
  {[documents |-> D, provisions |-> {}] :
     D \in {X \in SUBSET (DocumentCatalogue \cup {Csa, CsaAmendment}) :
              Cardinality(X) <= MaxDocs /\ \A a, b \in X : a.id = b.id => a = b}}

\* identifiers, title fragments, short names and strings that match nothing
InputIds ==
  {"pdpa-be2562", "cca-be2550", "csa", "CSA", "Personal Data Protection Act",
   "computer crime", "~ 2562", "PDPA", "2007", "P_PA", "%", "", "no such act"}

\* search terms: plain words, operators in and out of word position, quotes
\* of both kinds, wildcards, separators and comment sequences
Terms ==
  {"pdpa", "data", "^", "AND", "OR", "NOT", "and", "BAND", "NOTE", "AND_", "x-AND-y",
   "^OR^", "\"data", "\"data\"", "{data}", "{data", "data*", "*", "da*ta", "a;b", ";",
   "a--b", "---", "-;-", "{a;b--c", "(x)", "_"}

RECURSIVE TermChain(_)
\* n terms with one blank between two
TermChain(n) ==
  IF n = 1 THEN Terms ELSE {a \o " " \o t : a \in TermChain(n - 1), t \in Terms}

RECURSIVE Repeat(_, _)
\* n copies of s
Repeat(s, n) ==
  IF n = 0 THEN ""
  ELSE (IF n % 2 = 1 THEN s ELSE "") \o Repeat(s \o s, n \div 2)

\* queries longer than MAX_QUERY_LENGTH whose last characters are cut
LongQueries ==
  {Repeat("a", MAX_QUERY_LENGTH) \o "*",
   Repeat("a", MAX_QUERY_LENGTH - 1) \o " AND b",
   Repeat("a", MAX_QUERY_LENGTH - 1) \o "\"\""}

Queries ==
  UNION {TermChain(n) : n \in 1..MaxTerms}
    \cup {" " \o t \o "\t" : t \in Terms}
    \cup {"", "  "}
    \cup LongQueries

\* the provisions of the catalogue in the order of their relevance
RelevanceOrder ==
  <<Provision("pdpa-be2562", "3"), Provision("pdpa-2019", "3"), Provision("cca-be2550", "3"),
    Provision("pdpa-be2562", "30"), Provision("pdpa-be2562", "3(1)"),
    Provision("pdpa-2019", "3(1)"), Provision("pdpa-be2562", "3(1)(2)"),
    Provision("pdpa-be2562", "3(1)(2)(3)")>>

\* the stores the search tools are run on
SearchStores ==
  {st \in Stores :
     /\ WellFormedStore(st)
     /\ st.documents \subseteq {Pdpa("in_force"), Cca, PdpaCeOnly}
     /\ st.provisions \subseteq {RelevanceOrder[k] : k \in 1..4}}

\* blank queries, queries answered by the primary, by the fallback only, by
\* neither, a query without a token, explicit queries and ones the index
\* rejects
SearchQueries ==
  {"", "  ", "personal data", "data", "data zebra", "zebra", "(;)", "data AND subject",
   "AND", "computer-system"}

\* a statute's id, its title, its English title, or no filter
DocumentFilters ==
  {<<>>} \cup {"document_id" :> x :
                 x \in {"pdpa-be2562", "Personal Data Protection Act B.E. 2562 (2019)",
                        "^ ~ 2562"}}

SearchInputs ==
  {[query |-> q] @@ d @@ st @@ l :
     q \in SearchQueries, d \in DocumentFilters,
     st \in OptField("status", {"in_force"}), l \in OptField("limit", {1})}

(***************************************************************************)
(* The state machine.  A call runs to completion and leaves its result in  *)
(* the variables; Return goes back to idle.  Every call only reads db.     *)
(***************************************************************************)
None == <<>>

\* the arguments and the result of a call to the formatter, the resolver or
\* the query builder
others == <<format, formatted, inputId, resolved, query, variants,
            searchInput, searchResult, clock, previous, inputYear, converted, server, fetcher>>

\* the arguments and the result of a search call, the whole days between
\* built_at and Date.now(), the HTTP handler's module state and the
\* fetcher's module state
rest == <<searchInput, searchResult, clock, previous, inputYear, converted, server, fetcher>>

\* no call in progress
Quiet ==
  /\ op = "idle" /\ citation = "" /\ parsed = None /\ doc = None
  /\ validation = None /\ toolResult = None
  /\ format = None /\ formatted = None /\ inputId = None /\ resolved = None
  /\ query = None /\ variants = None
  /\ searchInput = None /\ searchResult = None /\ clock = 0 /\ previous = None
  /\ inputYear = None /\ converted = None

\* the variables of a call of a core operation or a tool
callVars ==
  <<op, citation, parsed, doc, validation, toolResult, format, formatted, inputId, resolved,
    query, variants, searchInput, searchResult, clock, previous, inputYear, converted>>

Idle == Quiet /\ server = None /\ fetcher = None

CallParseCitation(c) ==
  /\ op = "idle"
  /\ op' = "parseCitation"
  /\ citation' = c
  /\ parsed' = parseCitation(c)
  /\ UNCHANGED <<db, doc, validation, toolResult, others>>

CallValidateCitation(c) ==
  /\ op = "idle"
  /\ \E o \in validateCitation(db, c) :
        /\ op' = "validateCitation"
        /\ citation' = c
        /\ parsed' = o.result.citation
        /\ doc' = o.doc
        /\ validation' = o.result
  /\ UNCHANGED <<db, toolResult, others>>

CallValidateCitationTool(c) ==
  /\ op = "idle"
  /\ \E o \in validateCitationTool(db, c) :
        /\ op' = "validateCitationTool"
        /\ citation' = c
        /\ parsed' = IF o.result = None THEN None ELSE o.result.citation
        /\ doc' = o.doc
        /\ validation' = o.result
        /\ toolResult' = o.results
  /\ UNCHANGED <<db, others>>

Return ==
  /\ op # "idle"
  /\ op' = "idle" /\ citation' = "" /\ parsed' = None /\ doc' = None
  /\ validation' = None /\ toolResult' = None
  /\ format' = None /\ formatted' = None /\ inputId' = None /\ resolved' = None
  /\ query' = None /\ variants' = None
  /\ searchInput' = None /\ searchResult' = None
  /\ inputYear' = None /\ converted' = None
  /\ UNCHANGED <<db, clock, previous, server, fetcher>>

CallFormatCitation(p, f) ==
  /\ op = "idle"
  /\ op' = "formatCitation"
  /\ parsed' = p
  /\ format' = f
  /\ formatted' = formatCitation(p, f)
  /\ UNCHANGED <<db, citation, doc, validation, toolResult, inputId, resolved, query, variants,
                 rest>>

\* the parser on its own
InitParser == db = FixtureStore /\ Idle

NextParser == (\E c \in ParserInputs : CallParseCitation(c)) \/ Return

SpecParser == InitParser /\ [][NextParser]_vars

\* the formatter on its own
InitFormatter == db = FixtureStore /\ Idle

NextFormatter ==
  (\E p \in ParsedCitations, f \in Formats : CallFormatCitation(p, f)) \/ Return

SpecFormatter == InitFormatter /\ [][NextFormatter]_vars

\* the resolver over its stores
CallResolveExistingStatuteId(i) ==
  /\ op = "idle"
  /\ op' = "resolveExistingStatuteId"
  /\ inputId' = i
  /\ resolved' \in resolveExistingStatuteId(db, i)
  /\ UNCHANGED <<db, citation, parsed, doc, validation, toolResult, format, formatted,
                 query, variants, rest>>

InitResolver == db \in ResolverStores /\ Idle

NextResolver == (\E i \in InputIds : CallResolveExistingStatuteId(i)) \/ Return

SpecResolver == InitResolver /\ [][NextResolver]_vars

\* the search query builder on its own
CallBuildFtsQueryVariants(q) ==
  /\ op = "idle"
  /\ op' = "buildFtsQueryVariants"
  /\ query' = q
  /\ variants' = buildFtsQueryVariants(q)
  /\ UNCHANGED <<db, citation, parsed, doc, validation, toolResult, format, formatted,
                 inputId, resolved, rest>>

InitFts == db = FixtureStore /\ Idle

NextFts == (\E q \in Queries : CallBuildFtsQueryVariants(q)) \/ Return

SpecFts == InitFts /\ [][NextFts]_vars

\* the search tools over their stores
\* a search that deletes the rows of the statute it was filtered by
CallSearchLegislation_Writing(input) ==
  /\ op = "idle"
  /\ op' = "searchLegislation"
  /\ searchInput' = input
  /\ searchResult' = searchLegislation(db, RelevanceOrder, input, clock)
  /\ db' = [db EXCEPT !.provisions =
                        {p \in @ : ~(Has(input, "document_id")
                                       /\ p.document_id = input.document_id)}]
  /\ UNCHANGED <<citation, parsed, doc, validation, toolResult, format, formatted,
                 inputId, resolved, query, variants, clock, previous, inputYear, converted, server, fetcher>>

CallSearchLegislation(input) ==
  /\ op = "idle"
  /\ op' = "searchLegislation"
  /\ searchInput' = input
  /\ searchResult' = searchLegislation(db, RelevanceOrder, input, clock)
  /\ UNCHANGED <<db, citation, parsed, doc, validation, toolResult, format, formatted,
                 inputId, resolved, query, variants, clock, previous, inputYear, converted, server, fetcher>>

CallBuildLegalStance(input) ==
  /\ op = "idle"
  /\ op' = "buildLegalStance"
  /\ searchInput' = input
  /\ searchResult' = buildLegalStance(db, RelevanceOrder, input, clock)
  /\ UNCHANGED <<db, citation, parsed, doc, validation, toolResult, format, formatted,
                 inputId, resolved, query, variants, clock, previous, inputYear, converted, server, fetcher>>

InitSearch == db \in SearchStores /\ Idle

NextSearch ==
  \/ \E input \in SearchInputs : CallSearchLegislation(input)
  \/ \E input \in SearchInputs : CallBuildLegalStance(input)
  \/ Return

SpecSearch == InitSearch /\ [][NextSearch]_vars

\* inputs of the six core operations called one after another
CoreStores == {FixtureStore, [documents |-> {Pdpa("in_force")}, provisions |-> {}]}

CoreCitations ==
  {"Section 3, Personal Data Protection Act B.E. 2562", "s. 3, PDPA 2019",
   "pdpa-be2562, s. 3(1)", "Section 3, Fictional Act B.E. 2599", "garbage text", ""}

CoreParsed ==
  {p \in ParsedCitations :
     /\ p.valid /\ Has(p, "title") /\ Has(p, "be_year") /\ ~Has(p, "ce_year")
     /\ ~Has(p, "paragraph") /\ Has(p, "section") /\ p.section = "3"}

CoreInputIds == {"pdpa-be2562", "Personal Data Protection Act", "PDPA", "no such act"}

CoreQueries == {"personal data", "\"data", "data AND subject", "(;)", ""}

CoreSearchInputs ==
  {[query |-> q] @@ d :
     q \in {"personal data", "data zebra", "zebra", ""},
     d \in OptField("document_id", {"pdpa-be2562"})}

\* whole days between built_at and Date.now(), on both sides of
\* STALENESS_THRESHOLD_DAYS
Days == {0, 1, STALENESS_THRESHOLD_DAYS + 1}

\* the call that has just run: its operation, its arguments and its result
Call ==
  CASE op = "parseCitation" -> [op |-> op, args |-> <<citation>>, result |-> parsed]
    [] op = "validateCitation" ->
         [op |-> op, args |-> <<citation>>, result |-> <<doc, validation>>]
    [] op = "formatCitation" -> [op |-> op, args |-> <<parsed, format>>, result |-> formatted]
    [] op = "resolveExistingStatuteId" ->
         [op |-> op, args |-> <<inputId>>, result |-> resolved]
    [] op = "buildFtsQueryVariants" -> [op |-> op, args |-> <<query>>, result |-> variants]
    [] OTHER -> [op |-> op, args |-> <<searchInput>>, result |-> searchResult]

\* the caller keeps what the call returned
Remember ==
  /\ op # "idle"
  /\ previous' = Call
  /\ op' = "idle" /\ citation' = "" /\ parsed' = None /\ doc' = None
  /\ validation' = None /\ toolResult' = None
  /\ format' = None /\ formatted' = None /\ inputId' = None /\ resolved' = None
  /\ query' = None /\ variants' = None
  /\ searchInput' = None /\ searchResult' = None
  /\ inputYear' = None /\ converted' = None
  /\ UNCHANGED <<db, clock, server, fetcher>>

\* time passes between two calls
Tick ==
  /\ op = "idle"
  /\ \E d \in Days : d > clock /\ clock' = d
  /\ UNCHANGED <<db, op, citation, parsed, doc, validation, toolResult, format, formatted,
                 inputId, resolved, query, variants, searchInput, searchResult, previous,
                 inputYear, converted, server, fetcher>>

\* the six core operations in any order on one store
InitCore == db \in CoreStores /\ Idle

NextCore ==
  \/ \E c \in CoreCitations : CallParseCitation(c)
  \/ \E p \in CoreParsed, f \in {"full_en", "short"} : CallFormatCitation(p, f)
  \/ \E c \in CoreCitations : CallValidateCitation(c)
  \/ \E i \in CoreInputIds : CallResolveExistingStatuteId(i)
  \/ \E q \in CoreQueries : CallBuildFtsQueryVariants(q)
  \/ \E input \in CoreSearchInputs : CallSearchLegislation(input)
  \/ Remember
  \/ Return
  \/ Tick

SpecCore == InitCore /\ [][NextCore]_vars


\* the year conversions: a call on a year, and a call of the other
\* conversion on what the first returned
MaxYear == 3000

Years == 1..MaxYear

CallBeToce(y) ==
  /\ op = "idle"
  /\ op' = "beToce"
  /\ inputYear' = y
  /\ converted' = <<beToce(y)>>
  /\ UNCHANGED <<db, citation, parsed, doc, validation, toolResult, format, formatted,
                 inputId, resolved, query, variants, searchInput, searchResult, clock,
                 previous, server, fetcher>>

CallCeToBe(y) ==
  /\ op = "idle"
  /\ op' = "ceToBe"
  /\ inputYear' = y
  /\ converted' = <<ceToBe(y)>>
  /\ UNCHANGED <<db, citation, parsed, doc, validation, toolResult, format, formatted,
                 inputId, resolved, query, variants, searchInput, searchResult, clock,
                 previous, server, fetcher>>

CallCeToBeOnResult ==
  /\ op = "beToce" /\ Len(converted) = 1
  /\ op' = "ceToBe"
  /\ converted' = Append(converted, ceToBe(converted[1]))
  /\ UNCHANGED <<db, citation, parsed, doc, validation, toolResult, format, formatted,
                 inputId, resolved, query, variants, searchInput, searchResult, clock,
                 previous, inputYear, server, fetcher>>

CallBeToceOnResult ==
  /\ op = "ceToBe" /\ Len(converted) = 1
  /\ op' = "beToce"
  /\ converted' = Append(converted, beToce(converted[1]))
  /\ UNCHANGED <<db, citation, parsed, doc, validation, toolResult, format, formatted,
                 inputId, resolved, query, variants, searchInput, searchResult, clock,
                 previous, inputYear, server, fetcher>>

InitYears == db = FixtureStore /\ Idle

NextYears ==
  \/ \E y \in Years : CallBeToce(y)
  \/ \E y \in Years : CallCeToBe(y)
  \/ CallCeToBeOnResult
  \/ CallBeToceOnResult
  \/ Return

SpecYears == InitYears /\ [][NextYears]_vars

\* the two citation tools on the fixture store
BlankCitations == {"", " ", "  ", "\t", " \t "}

ToolCitations == ValidatorInputs \cup BlankCitations

FormatToolInputs ==
  {[citation |-> c] @@ f : c \in ToolCitations, f \in OptField("format", Formats)}

CallFormatCitationTool(input) ==
  /\ op = "idle"
  /\ op' = "formatCitationTool"
  /\ citation' = input.citation
  /\ format' = IF Has(input, "format") THEN input.format ELSE None
  /\ \E o \in {formatCitationTool(input)} :
        /\ parsed' = o.parsed
        /\ toolResult' = o.results
  /\ UNCHANGED <<db, doc, validation, formatted, inputId, resolved, query, variants, rest>>

InitTools == db = FixtureStore /\ Idle

NextTools ==
  \/ \E c \in ToolCitations : CallValidateCitationTool(c)
  \/ \E input \in FormatToolInputs : CallFormatCitationTool(input)
  \/ Return

SpecTools == InitTools /\ [][NextTools]_vars

\* the HTTP handler (api/mcp.ts).  One step is what the event loop runs
\* without giving way to another request: a handler up to its await, the
\* settling of initializeDatabase with the finally callback that follows it,
\* a handler from its await on.
MaxReqs == 3

Reqs == 1..MaxReqs

\* let db = null, dbReady = false, dbReadyPromise = null; promises holds the
\* state of every promise ensureDatabase has made, dbReadyPromise the index
\* of the shared one or 0 for null; pc and awaits are the handler
\* invocations' positions and the promises they await
ServerStart ==
  [dbReady |-> FALSE, dbReadyPromise |-> 0, promises |-> <<>>, db |-> "null",
   pc |-> [r \in Reqs |-> "none"], awaits |-> [r \in Reqs |-> 0]]

\* every request not yet inside ensureDatabase's guard starts an execution
StartsInitialisation_Always(s) == TRUE

\* if (!dbReadyPromise) { dbReadyPromise = initializeDatabase()... }
StartsInitialisation(s) == s.dbReadyPromise = 0

\* initializeDatabase up to its first await, with the microtasks that follow
\* when it has none: "sync" found THAILAND_LAW_DB_PATH or /tmp/database.db,
\* "throw" failed before any await (rmSync of the lock), "async" awaits the
\* import of fs or the download
InitializePaths == {"sync", "throw", "async"}

\* OPTIONS and GET are answered without the database
HandleOther(r) ==
  /\ server.pc[r] = "none"
  /\ server' = [server EXCEPT !.pc[r] = "answered"]
  /\ UNCHANGED <<db, callVars, fetcher>>

\* handler: await ensureDatabase(), up to the await
HandlePost(r) ==
  /\ server.pc[r] = "none"
  /\ \/ /\ server.dbReady
        /\ server' = [server EXCEPT !.pc[r] = "ready"]
     \/ /\ ~server.dbReady /\ StartsInitialisation(server)
        /\ \E path \in InitializePaths :
              server' =
                [server EXCEPT
                   !.promises = Append(@, CASE path = "sync" -> "resolved"
                                            [] path = "throw" -> "rejected"
                                            [] OTHER -> "pending"),
                   !.dbReady = (path = "sync"),
                   !.dbReadyPromise = IF path = "throw" THEN 0 ELSE Len(server.promises) + 1,
                   !.pc[r] = "waiting",
                   !.awaits[r] = Len(server.promises) + 1]
     \/ /\ ~server.dbReady /\ ~StartsInitialisation(server)
        /\ server' = [server EXCEPT !.pc[r] = "waiting", !.awaits[r] = server.dbReadyPromise]
  /\ UNCHANGED <<db, callVars, fetcher>>

\* initializeDatabase reaches dbReady = true; the finally callback finds
\* dbReady set and keeps the promise
InitializeSucceeds(p) ==
  /\ p \in 1..Len(server.promises) /\ server.promises[p] = "pending"
  /\ server' = [server EXCEPT !.promises[p] = "resolved", !.dbReady = TRUE]
  /\ UNCHANGED <<db, callVars, fetcher>>

\* downloadDatabase or copyFileSync throws; finally: if (!dbReady)
\* dbReadyPromise = null
InitializeFails(p) ==
  /\ p \in 1..Len(server.promises) /\ server.promises[p] = "pending"
  /\ server' = [server EXCEPT !.promises[p] = "rejected",
                              !.dbReadyPromise = IF ~server.dbReady THEN 0 ELSE @]
  /\ UNCHANGED <<db, callVars, fetcher>>

\* the handler after await ensureDatabase(): getDatabase() and the request,
\* or the catch block; exists is existsSync(resolvedDbPath)
Resume(r) ==
  /\ \/ server.pc[r] = "ready"
     \/ server.pc[r] = "waiting" /\ server.promises[server.awaits[r]] # "pending"
  /\ \/ /\ server.pc[r] = "waiting" /\ server.promises[server.awaits[r]] = "rejected"
        /\ server' = [server EXCEPT !.pc[r] = "failed"]
     \/ /\ server.pc[r] = "waiting" => server.promises[server.awaits[r]] = "resolved"
        /\ \E exists \in BOOLEAN :
              server' = IF server.db = "open" \/ exists
                        THEN [server EXCEPT !.pc[r] = "served", !.db = "open"]
                        ELSE [server EXCEPT !.pc[r] = "getDatabase threw"]
  /\ UNCHANGED <<db, callVars, fetcher>>

InitServer == db = FixtureStore /\ Quiet /\ server = ServerStart /\ fetcher = None

NextServer ==
  \/ \E r \in Reqs : HandleOther(r)
  \/ \E r \in Reqs : HandlePost(r)
  \/ \E p \in Reqs : InitializeSucceeds(p)
  \/ \E p \in Reqs : InitializeFails(p)
  \/ \E r \in Reqs : Resume(r)

SpecServer == InitServer /\ [][NextServer]_vars

\* the krisdika fetcher (part_005).  Times are in ms and pass in steps of
\* TickMs; Date.now() - lastRequestTime and the time since the last request
\* started are kept up to MIN_DELAY_MS, beyond which the code does not tell
\* them apart.  One step is what the event loop runs without giving way.
MIN_DELAY_MS == 500

TickMs == 250

DEFAULT_MAX_RETRIES == 3

MaxCalls == 2

Calls == 1..MaxCalls

\* maxRetries of a call: the default, one retry, and one that admits no
\* attempt
MaxRetriesValues == {DEFAULT_MAX_RETRIES, 1, -1}

\* response.status
Statuses == {200, 404, 429, 500, 503}

RECURSIVE Pow2(_)
\* Math.pow(2, n)
Pow2(n) == IF n = 0 THEN 1 ELSE 2 * Pow2(n - 1)

NoCall ==
  [pc |-> "idle", attempt |-> 0, maxRetries |-> 0, remaining |-> 0, backoff |-> 0,
   requests |-> 0, status |-> 0, error |-> ""]

\* let lastRequestTime = 0, no call started, no request made
FetcherStart ==
  [elapsed |-> MIN_DELAY_MS, sinceRequest |-> MIN_DELAY_MS, lastGap |-> MIN_DELAY_MS,
   calls |-> [c \in Calls |-> NoCall]]

\* response.status === 429 || response.status >= 500
Retryable(status) == status = 429 \/ status >= 500

\* response.status is 429 or >= 500 and attempt < maxRetries
WillRetry(call, status) == Retryable(status) /\ call.attempt < call.maxRetries

\* await fetch(url, ...) of call c starts a request
Requested(f, c) ==
  [f EXCEPT !.lastGap = f.sinceRequest, !.sinceRequest = 0,
            !.calls[c].pc = "fetching", !.calls[c].requests = @ + 1]

\* the for loop is entered after rateLimit(): the first request, or with
\* maxRetries below 0 the throw after the loop
EnterLoop(f, c) ==
  IF f.calls[c].attempt <= f.calls[c].maxRetries
  THEN Requested(f, c)
  ELSE [f EXCEPT !.calls[c].pc = "thrown",
                 !.calls[c].error = "Failed to fetch <url> after "
                                      \o IntToStr(f.calls[c].maxRetries) \o " retries"]

\* fetchWithRateLimit(url, m) up to its first timer or request: rateLimit()
\* sets the timer when elapsed < MIN_DELAY_MS, else it sets lastRequestTime
StartCall(c, m) ==
  /\ fetcher.calls[c].pc = "idle"
  /\ fetcher' =
       IF fetcher.elapsed < MIN_DELAY_MS
       THEN [fetcher EXCEPT !.calls[c] = [NoCall EXCEPT !.pc = "rateLimit", !.maxRetries = m,
                                                        !.remaining =
                                                          MIN_DELAY_MS - fetcher.elapsed]]
       ELSE EnterLoop([fetcher EXCEPT !.elapsed = 0,
                                      !.calls[c] = [NoCall EXCEPT !.maxRetries = m]], c)
  /\ UNCHANGED <<db, callVars, server>>

\* the timer of rateLimit() fires: lastRequestTime = Date.now()
WakeRateLimit(c) ==
  /\ fetcher.calls[c].pc = "rateLimit" /\ fetcher.calls[c].remaining = 0
  /\ fetcher' = EnterLoop([fetcher EXCEPT !.elapsed = 0], c)
  /\ UNCHANGED <<db, callVars, server>>

\* the response arrives: the backoff timer is set, or the response is
\* returned
Respond(c, status) ==
  /\ fetcher.calls[c].pc = "fetching"
  /\ fetcher' =
       IF WillRetry(fetcher.calls[c], status)
       THEN [fetcher EXCEPT !.calls[c].pc = "backoff", !.calls[c].status = status,
                            !.calls[c].backoff = Pow2(fetcher.calls[c].attempt + 1) * 1000,
                            !.calls[c].remaining = Pow2(fetcher.calls[c].attempt + 1) * 1000]
       ELSE [fetcher EXCEPT !.calls[c].pc = "returned", !.calls[c].status = status]
  /\ UNCHANGED <<db, callVars, server>>

\* fetch rejects (network failure); nothing catches it
FetchRejects(c) ==
  /\ fetcher.calls[c].pc = "fetching"
  /\ fetcher' = [fetcher EXCEPT !.calls[c].pc = "thrown", !.calls[c].error = "fetch failed"]
  /\ UNCHANGED <<db, callVars, server>>

\* the backoff timer fires: continue, attempt++, the next request
Retry(c) ==
  /\ fetcher.calls[c].pc = "backoff" /\ fetcher.calls[c].remaining = 0
  /\ fetcher' = Requested([fetcher EXCEPT !.calls[c].attempt = @ + 1], c)
  /\ UNCHANGED <<db, callVars, server>>

\* TickMs pass
TimePasses ==
  /\ fetcher' =
       [fetcher EXCEPT
          !.elapsed = Min({MIN_DELAY_MS, @ + TickMs}),
          !.sinceRequest = Min({MIN_DELAY_MS, @ + TickMs}),
          !.calls = [c \in Calls |-> [@[c] EXCEPT !.remaining = Max({0, @ - TickMs})]]]
  /\ UNCHANGED <<db, callVars, server>>

\* the caller has its result and may call again
CallEnds(c) ==
  /\ fetcher.calls[c].pc \in {"returned", "thrown"}
  /\ fetcher' = [fetcher EXCEPT !.calls[c] = NoCall]
  /\ UNCHANGED <<db, callVars, server>>

InitFetcher == db = FixtureStore /\ Quiet /\ server = None /\ fetcher = FetcherStart

NextFetcher ==
  \/ \E c \in Calls, m \in MaxRetriesValues : StartCall(c, m)
  \/ \E c \in Calls : WakeRateLimit(c)
  \/ \E c \in Calls, status \in Statuses : Respond(c, status)
  \/ \E c \in Calls : FetchRejects(c)
  \/ \E c \in Calls : Retry(c)
  \/ TimePasses
  \/ \E c \in Calls : CallEnds(c)

SpecFetcher == InitFetcher /\ [][NextFetcher]_vars

\* timers fire, time passes and every fetch settles
FairFetcher ==
  /\ WF_vars(TimePasses)
  /\ \A c \in Calls :
        /\ WF_vars(WakeRateLimit(c))
        /\ WF_vars(Retry(c))
        /\ WF_vars((\E status \in Statuses : Respond(c, status)) \/ FetchRejects(c))

SpecFetcherFair == SpecFetcher /\ FairFetcher

\* the validator and its tool over every store
Init == db \in {s \in Stores : WellFormedStore(s)} /\ Idle

Next ==
  \/ \E c \in ValidatorInputs : CallValidateCitation(c)
  \/ \E c \in ValidatorInputs : CallValidateCitationTool(c)
  \/ Return

Spec == Init /\ [][Next]_vars

(***************************************************************************)
(* Properties.                                                             *)
(***************************************************************************)
\* the grammars in the order of C1, by number
GrammarMatch(k, t) ==
  CASE k = 1 -> THAI_CITATION(t)
    [] k = 2 -> ENGLISH_BE_CITATION(t)
    [] k = 3 -> TRAILING_SECTION_BE(t)
    [] k = 4 -> SHORT_CITATION(t)
    [] k = 5 -> ID_BASED(t)
    [] k = 6 -> ENGLISH_CE_CITATION(t)
    [] k = 7 -> TRAILING_SECTION_CE(t)

GrammarResult(k, t) ==
  CASE k = 1 -> FromThai(GrammarMatch(1, t))
    [] k = 2 -> FromEnglishBE(GrammarMatch(2, t))
    [] k = 3 -> FromTrailingBE(GrammarMatch(3, t))
    [] k = 4 -> FromShort(GrammarMatch(4, t))
    [] k = 5 -> FromIdBased(GrammarMatch(5, t))
    [] k = 6 -> FromEnglishCE(GrammarMatch(6, t))
    [] k = 7 -> FromTrailingCE(GrammarMatch(7, t))

Matching(t) == {k \in 1..7 : GrammarMatch(k, t).ok}

\* C1: the result of parseCitation is the one built from the first grammar,
\* in the order Thai, English B.E., trailing B.E., short, identifier, English
\* CE, trailing CE, that matches the trimmed input; when none matches it is
\* valid=false, type 'unknown', with an error text that contains the trimmed
\* input.
C1_FirstGrammarWins ==
  op = "parseCitation" =>
    LET t == Trim(citation)
    IN  IF Matching(t) = {}
        THEN /\ parsed.valid = FALSE
             /\ parsed.type = "unknown"
             /\ Has(parsed, "error") /\ Includes(parsed.error, t)
        ELSE parsed = GrammarResult(Min(Matching(t)), t)

\* an input that carries blanks around it and that several grammars match
\* with different results was parsed
C1_Witness ==
  /\ op = "parseCitation"
  /\ Trim(citation) # citation
  /\ \E j, k \in Matching(Trim(citation)) :
        j < k /\ GrammarResult(j, Trim(citation)) # GrammarResult(k, Trim(citation))
  /\ parsed.valid

RECURSIVE PinGroups(_, _)
\* the contents of the parenthesized groups of a pinpoint, read from i
PinGroups(pin, i) ==
  IF Ch(pin, i) = "(" /\ DigitsEnd(pin, i + 1) > i + 1 /\ Ch(pin, DigitsEnd(pin, i + 1)) = ")"
  THEN <<SubSeq(pin, i + 1, DigitsEnd(pin, i + 1) - 1)>>
         \o PinGroups(pin, DigitsEnd(pin, i + 1) + 1)
  ELSE <<>>

\* the end of digits[/digits] at the head of a pinpoint
PinHeadEnd(pin) == SlashEnd(pin, DigitsEnd(pin, 1))

\* the pinpoint of a parsed citation as C3 writes it
ClaimPinpoint(p) ==
  p.section \o (IF Has(p, "subsection") THEN "(" \o p.subsection \o ")" ELSE "")
            \o (IF Has(p, "paragraph") THEN "(" \o p.paragraph \o ")" ELSE "")

\* C3's condition on the stored provisions of document d for the citation p
ClaimProvisionStored(store, d, p) ==
  \E row \in store.provisions :
     /\ row.document_id = d.id
     /\ \/ row.provision_ref = "s" \o ClaimPinpoint(p)
        \/ row.section = ClaimPinpoint(p)
        \/ /\ ~Has(p, "subsection") /\ ~Has(p, "paragraph")
           /\ \/ StartsWith(row.provision_ref, "s" \o ClaimPinpoint(p) \o "(")
              \/ StartsWith(row.section, ClaimPinpoint(p) \o "(")

\* s contains x when letter case is ignored
ContainsCI(s, x) == Includes(ToLower(s), ToLower(x))

\* one of the three name columns of d contains the title t
ClaimTitleContained(d, t) ==
  \/ ContainsCI(d.title, t)
  \/ Has(d, "title_en") /\ ContainsCI(d.title_en, t)
  \/ Has(d, "short_name") /\ ContainsCI(d.short_name, t)

\* the year constraint as C5 states it
ClaimYearConstraint(d, p) ==
  (Has(p, "be_year") \/ Has(p, "ce_year")) =>
     \/ Has(p, "be_year") /\ ColEq(d, "be_year", p.be_year)
     \/ Has(p, "ce_year") /\ ColEq(d, "ce_year", p.ce_year)

\* C2: for a bare-identifier citation '<id>, s. N' whose <id> is the id of a
\* stored document, validateCitation reports document_exists=true, and
\* provision_exists according to whether section N is stored for it.
C2_IdentifierCitationResolved ==
  (/\ op = "validateCitation"
   /\ ID_BASED(Trim(citation)).ok
   /\ parsed = FromIdBased(ID_BASED(Trim(citation)))
   /\ \E d \in db.documents : d.id = parsed.title)
  => /\ validation.document_exists
     /\ doc.id = parsed.title
     /\ validation.provision_exists = ClaimProvisionStored(db, doc, parsed)

\* for a found document, provision_exists as validateCitation computes it from
\* the parsed fields: exact on 's'+P and P, by prefix only when neither
\* subsection nor paragraph was parsed
ProvisionExistsIffParsed ==
  (op = "validateCitation" /\ validation.document_exists)
  => (validation.provision_exists = ClaimProvisionStored(db, doc, parsed))

\* the pinpoint fragment of the citation, as the grammar that matched read it
CitedPinpoint(c) == GrammarMatch(Min(Matching(Trim(c))), Trim(c)).pin

\* the citation names a subsection: its pinpoint has a parenthesized group
NamesSubsection(c) == Len(PinGroups(CitedPinpoint(c), PinHeadEnd(CitedPinpoint(c)))) > 0

\* C3: when the document was found, provision_exists is true exactly when
\* the document stores a provision whose provision_ref is 's'+P or whose
\* section is P, or - only for a citation that names neither subsection nor
\* paragraph - whose provision_ref begins with 's'+P+'(' or whose section
\* begins with P+'(', P being the pinpoint of the citation; a citation that
\* names a subsection is never satisfied by prefix matching.
C3_ProvisionExistsIff ==
  (op = "validateCitation" /\ validation.document_exists)
  => (validation.provision_exists =
        \E row \in db.provisions :
           /\ row.document_id = doc.id
           /\ \/ row.provision_ref = "s" \o CitedPinpoint(citation)
              \/ row.section = CitedPinpoint(citation)
              \/ /\ ~NamesSubsection(citation)
                 /\ \/ StartsWith(row.provision_ref, "s" \o CitedPinpoint(citation) \o "(")
                    \/ StartsWith(row.section, CitedPinpoint(citation) \o "("))

\* C4: document_exists is true only if a stored document contains the parsed
\* title in its native title, English title or short name (without regard
\* to letter case) and satisfies the year constraint, and document_title and
\* status are those of such a document.
C4_FoundDocumentContainsTitle ==
  (op = "validateCitation" /\ validation.document_exists)
  => \E d \in db.documents :
        /\ ClaimTitleContained(d, parsed.title)
        /\ ClaimYearConstraint(d, parsed)
        /\ validation.document_title = DocTitle(d)
        /\ validation.status = d.status

\* C5: when the citation carries years, a stored document passes the year
\* constraint exactly when its be_year equals the citation's be_year or its
\* ce_year equals the citation's ce_year; without years no constraint is
\* applied.  So the document is found exactly when some row matches the
\* title patterns and passes that constraint.
C5_YearConstraint ==
  (op = "validateCitation" /\ parsed.valid)
  => (validation.document_exists
        = \E d \in db.documents :
             /\ \/ ColLike(d, "title", "%" \o parsed.title \o "%")
                \/ ColLike(d, "title_en", "%" \o parsed.title \o "%")
                \/ ColLike(d, "short_name", "%" \o parsed.title \o "%")
             /\ ClaimYearConstraint(d, parsed))

\* C6: the valid flag of validateCitationTool is true exactly when the
\* citation parsed, the document exists and, when a section was cited, the
\* provision exists.
C6_ToolValidIff ==
  op = "validateCitationTool"
  => (toolResult.valid
        = (/\ parseCitation(citation).valid
           /\ toolResult.document_exists
           /\ (Has(parseCitation(citation), "section") => toolResult.provision_exists)))

\* the tool answered valid=true for a repealed statute
C6_Witness ==
  /\ op = "validateCitationTool"
  /\ toolResult.valid
  /\ toolResult.status = "repealed"

\* C7: provision_exists implies document_exists; and for an input that does
\* not parse the result is exactly citation (valid=false), document_exists
\* false, provision_exists false and the one parse diagnostic as warnings.
C7_ResultInvariant ==
  op = "validateCitation"
  => /\ validation.provision_exists => validation.document_exists
     /\ ~parseCitation(citation).valid
          => validation = [citation |-> parseCitation(citation),
                           document_exists |-> FALSE, provision_exists |-> FALSE,
                           warnings |-> <<parseCitation(citation).error>>]

\* a non-blank input that does not parse was validated
C7_Witness ==
  /\ op = "validateCitation"
  /\ Trim(citation) # ""
  /\ ~validation.citation.valid
  /\ ~validation.document_exists

RepealedWarning == "This statute has been repealed"

MissingWarning(d, p) == "Section " \o ClaimPinpoint(p) \o " not found in " \o DocTitle(d)

C9_StatusWarning ==
  (/\ op = "validateCitationTool"
   /\ toolResult.document_exists
   /\ doc.status \in {"repealed", "amended"})
  => \E i \in 1..Len(toolResult.warnings) :
        /\ ~StartsWith(toolResult.warnings[i], "Section ")
        /\ Includes(toolResult.warnings[i], doc.status)

\* C10: for the pinpoint fragment the matching grammar accepted, section is
\* the leading digits[/digits], subsection the content of the first
\* parenthesized group and paragraph the content of the second, and section
\* holds no parenthesis.
C10_PinpointDecomposed ==
  (op = "parseCitation" /\ parsed.valid)
  => LET pin == GrammarMatch(Min(Matching(Trim(citation))), Trim(citation)).pin
         groups == PinGroups(pin, PinHeadEnd(pin))
     IN  /\ parsed.section = SubSeq(pin, 1, PinHeadEnd(pin) - 1)
         /\ ~Includes(parsed.section, "(")
         /\ Len(groups) >= 1 => (Has(parsed, "subsection") /\ parsed.subsection = groups[1])
         /\ Len(groups) >= 2 => (Has(parsed, "paragraph") /\ parsed.paragraph = groups[2])

\* the number of the first grammar that matches the citation c
FirstGrammar(c) == Min(Matching(Trim(c)))

\* the title text the first matching grammar extracted from c, trimmed
ExtractedTitle(c) == Trim(GrammarMatch(FirstGrammar(c), Trim(c)).title)

\* the Thai short titles of THAI_SHORT_MAP
ThaiShortTitles == {THAI_SHORT_MAP[i][1] : i \in 1..Len(THAI_SHORT_MAP)}

\* the English title THAI_SHORT_MAP gives for the Thai short title k
ThaiShortTitleOf(k) == THAI_SHORT_MAP[CHOOSE i \in 1..Len(THAI_SHORT_MAP) : THAI_SHORT_MAP[i][1] = k][2]

\* C11: whichever grammar with a title matches, a title that is a known
\* abbreviation (case-insensitively) comes back as its full English title, a
\* Thai title that is a known Thai short title as the mapped English title,
\* and a title that no table key occurs in is kept as extracted, valid=true.
C11_TitleExpanded ==
  (op = "parseCitation" /\ parsed.valid /\ FirstGrammar(citation) # 5)
  => IF ToLower(ExtractedTitle(citation)) \in DOMAIN ABBREVIATION_MAP
     THEN parsed.title = ABBREVIATION_MAP[ToLower(ExtractedTitle(citation))]
     ELSE IF FirstGrammar(citation) = 1 /\ ExtractedTitle(citation) \in ThaiShortTitles
     THEN parsed.title = ThaiShortTitleOf(ExtractedTitle(citation))
     ELSE (\A k \in ThaiShortTitles : ~Includes(ExtractedTitle(citation), k))
            => parsed.title = ExtractedTitle(citation)

\* the position of the year digits the B.E. grammar k (2 or 3) captured in
\* the trimmed citation t: the English form ends with the year or with the
\* parenthesized year, the trailing form has the year after the title
BeYearAt(k, t) ==
  IF k = 3 THEN EraYear(ToLower(t), Len(GrammarMatch(3, t).title) + 1, "be")
  ELSE IF Ch(t, Len(t)) = ")" THEN WsStart(t, Len(t) - 6) - 4
  ELSE Len(t) - 3

\* the trimmed citation t carries a parenthesized year after the year at y
HasParenYear(t, y) ==
  /\ Ch(t, WsEnd(t, y + 4)) = "(" /\ Year4(t, WsEnd(t, y + 4) + 1)
  /\ Ch(t, WsEnd(t, y + 4) + 5) = ")"

\* t without the parenthesized year that follows the year at y
WithoutParenYear(t, y) ==
  SubSeq(t, 1, y + 3) \o SubSeq(t, WsEnd(t, y + 4) + 6, Len(t))

\* C12: be_year and ce_year are both present or both absent, when present
\* be_year = ce_year + 543, and for the B.E. grammars a parenthesized year
\* after the B.E. year, whatever its digits, yields the fields of the
\* citation without it.
C12_YearsDerivedTogether ==
  (op = "parseCitation")
  => /\ Has(parsed, "be_year") = Has(parsed, "ce_year")
     /\ Has(parsed, "be_year") => parsed.be_year = parsed.ce_year + BE_OFFSET
     /\ parsed.valid =>
          LET t == Trim(citation)
              k == FirstGrammar(citation)
          IN  (k \in {2, 3} /\ HasParenYear(t, BeYearAt(k, t)))
                => parsed = parseCitation(WithoutParenYear(t, BeYearAt(k, t)))

\* a B.E. citation was parsed whose parenthesized year is not the B.E. year
\* less 543
C12_Witness ==
  /\ op = "parseCitation" /\ parsed.valid /\ Includes(citation, "(1999)")
  /\ FirstGrammar(citation) \in {2, 3}
  /\ HasParenYear(Trim(citation), BeYearAt(FirstGrammar(citation), Trim(citation)))
  /\ parsed.be_year = 2562 /\ parsed.ce_year = 2019

\* the bare 4-digit year the grammar k (4, 6 or 7) captured in the citation c
BareYear(k, c) == ParseInt(GrammarMatch(k, Trim(c)).year)

\* C13: in the grammars that read a bare 4-digit year y (short form, English
\* and trailing-section form without B.E. marker), y > 2400 is a B.E. year
\* (be_year = y, ce_year = y - 543) and y <= 2400, 2400 included, is a CE
\* year (ce_year = y, be_year = y + 543).
C13_BareYearThreshold ==
  (op = "parseCitation" /\ parsed.valid /\ FirstGrammar(citation) \in {4, 6, 7})
  => LET y == BareYear(FirstGrammar(citation), citation)
     IN  IF y > 2400
         THEN parsed.be_year = y /\ parsed.ce_year = y - 543
         ELSE parsed.ce_year = y /\ parsed.be_year = y + 543

\* the year 2400 itself was read by a bare-year grammar
C13_Witness ==
  /\ op = "parseCitation" /\ parsed.valid /\ FirstGrammar(citation) \in {4, 6, 7}
  /\ BareYear(FirstGrammar(citation), citation) = 2400
  /\ parsed.ce_year = 2400 /\ parsed.be_year = 2943

\* C14: a result with valid=false has type 'unknown', an error text and no
\* title, abbreviation, years, section, subsection or paragraph; a result
\* with valid=true has no error; empty or whitespace-only input yields
\* valid=false.
C14_InvalidHasOnlyError ==
  (op = "parseCitation")
  => /\ ~parsed.valid => /\ parsed.type = "unknown"
                         /\ Has(parsed, "error") /\ parsed.error # ""
                         /\ DOMAIN parsed = {"valid", "type", "error"}
     /\ parsed.valid => ~Has(parsed, "error")
     /\ Trim(citation) = "" => ~parsed.valid

\* a whitespace-only input was parsed
C14_Witness ==
  /\ op = "parseCitation" /\ citation # "" /\ Trim(citation) = ""
  /\ ~parsed.valid /\ DOMAIN parsed = {"valid", "type", "error"}

\* the title holds no year and no section marker: no digit, no era marker
\* and no section word
MarkerFree(title) ==
  /\ \A i \in 1..Len(title) : Ch(title, i) \notin DigitSet
  /\ \A x \in {"section", "s.", "@", "b.e", "be ", "~"} : ~Includes(ToLower(title), x)

\* the fields C15 compares, <<>> standing for an absent one
RoundTripFields(p) ==
  [f \in {"section", "subsection", "paragraph", "title", "be_year", "ce_year"} |->
     IF Has(p, f) THEN <<p[f]>> ELSE <<>>]

\* the text t = formatCitation(p, f) parses again to the fields of p and
\* formats again to t
RoundTrips(p, f) ==
  /\ parseCitation(formatCitation(p, f)).valid
  /\ RoundTripFields(parseCitation(formatCitation(p, f))) = RoundTripFields(p)
  /\ formatCitation(parseCitation(formatCitation(p, f)), f) = formatCitation(p, f)

\* C15: for every accepted citation whose title is free of year and section
\* markers, and for full_en and full_th, the formatted text is itself
\* accepted, yields the same section, subsection, paragraph, title, be_year
\* and ce_year, and formats to the same text again.
C15_FormatParseRoundTrip ==
  (op = "parseCitation" /\ parsed.valid /\ MarkerFree(parsed.title))
  => (RoundTrips(parsed, "full_en") /\ RoundTrips(parsed, "full_th"))

\* C16: formatCitation returns a string for every ParsedCitation and every
\* format value; the empty string when valid=false or section is absent; and
\* for a format outside full_th, full_en, short, pinpoint what it returns for
\* full_en.
C16_FormatterTotal ==
  (op = "formatCitation")
  => /\ Len(formatted) >= 0
     /\ (~parsed.valid \/ ~Has(parsed, "section")) => formatted = ""
     /\ format \notin {"full_th", "full_en", "short", "pinpoint"}
          => formatted = formatCitation(parsed, "full_en")

\* a valid citation with a section was formatted in an unknown format
C16_Witness ==
  /\ op = "formatCitation" /\ format = "bluebook"
  /\ parsed.valid /\ Has(parsed, "section") /\ ~Has(parsed, "title")
  /\ formatted # ""

\* '(text)' for a non-empty optional field, nothing otherwise
Parenthesized(p, f) == IF Truthy(p, f) THEN "(" \o p[f] \o ")" ELSE ""

\* {pinpoint}: the section followed by '(subsection)' and '(paragraph)'
TemplatePinpoint(p) ==
  p.section \o Parenthesized(p, "subsection") \o Parenthesized(p, "paragraph")

\* the four documented templates with absent fields as empty text
Template(p, fmt) ==
  CASE fmt = "full_en" ->
         "Section " \o TemplatePinpoint(p) \o ", " \o StrOrEmpty(p, "title") \o " B.E. "
           \o NumOrEmpty(p, "be_year") \o " (" \o NumOrEmpty(p, "ce_year") \o ")"
    [] fmt = "full_th" ->
         "@ " \o TemplatePinpoint(p) \o " " \o StrOrEmpty(p, "title") \o " ~ "
           \o NumOrEmpty(p, "be_year")
    [] fmt = "short" ->
         "s. " \o TemplatePinpoint(p) \o ", "
           \o (IF Has(p, "abbreviation") THEN p.abbreviation ELSE StrOrEmpty(p, "title"))
           \o " " \o NumOrEmpty(p, "ce_year")
    [] fmt = "pinpoint" -> "s. " \o TemplatePinpoint(p)

\* a valid citation with a non-empty section was formatted in a known format
FormattedKnown ==
  /\ op = "formatCitation"
  /\ parsed.valid /\ Truthy(parsed, "section")
  /\ format \in {"full_th", "full_en", "short", "pinpoint"}

\* C17 as stated: for a valid citation with a section the result is the
\* template of the format, the pinpoint being the section followed by
\* '(subsection)' and '(paragraph)' when present and absent fields being empty
\* text.
C17_TemplatesVerbatim == FormattedKnown => formatted = Template(parsed, format)

\* C17 amended: the result is the template of the format with surrounding
\* whitespace trimmed, except for pinpoint, which is the template itself.
C17_TemplatesTrimmed ==
  FormattedKnown
  => formatted = IF format = "pinpoint" THEN Template(parsed, format)
                 ELSE Trim(Template(parsed, format))

\* a short citation with subsection, paragraph and abbreviation but no year
C17_Witness ==
  /\ FormattedKnown /\ format = "short"
  /\ Truthy(parsed, "subsection") /\ Truthy(parsed, "paragraph")
  /\ Has(parsed, "abbreviation") /\ Has(parsed, "title") /\ ~Has(parsed, "ce_year")
  /\ formatted = "s. " \o parsed.section \o "(1)(a), PDPA"

\* the native or English title of d contains x, letter case ignored
TitleContains(d, x) ==
  ContainsCI(d.title, x) \/ (Has(d, "title_en") /\ ContainsCI(d.title_en, x))

\* the short name of d contains x, letter case ignored
ShortNameContains(d, x) == Has(d, "short_name") /\ ContainsCI(d.short_name, x)

\* C18: if a stored document's id equals the input the resolver returns that
\* id after one query, whatever other titles contain the input; otherwise
\* the id of a document whose native or English title contains the input,
\* after two queries; otherwise the id of a document whose short name
\* contains the input; otherwise null; and a non-null result is the id of a
\* stored document.
C18_StagedResolution ==
  (op = "resolveExistingStatuteId")
  => /\ Has(resolved, "id") => \E d \in db.documents : d.id = resolved.id
     /\ IF \E d \in db.documents : d.id = inputId
        THEN Has(resolved, "id") /\ resolved.id = inputId /\ resolved.queries = 1
        ELSE IF \E d \in db.documents : TitleContains(d, inputId)
        THEN /\ Has(resolved, "id") /\ resolved.queries = 2
             /\ \E d \in db.documents : d.id = resolved.id /\ TitleContains(d, inputId)
        ELSE IF \E d \in db.documents : ShortNameContains(d, inputId)
        THEN /\ Has(resolved, "id") /\ resolved.queries = 3
             /\ \E d \in db.documents : d.id = resolved.id /\ ShortNameContains(d, inputId)
        ELSE ~Has(resolved, "id") /\ resolved.queries = 3

\* query.trim().slice(0, MAX_QUERY_LENGTH), the text the mode is decided on
Capped(q) == Slice(Trim(q), MAX_QUERY_LENGTH)

\* the text holds a straight or a typographic double quote
HasQuoteCharacter(t) == \E i \in 1..Len(t) : Ch(t, i) \in {"\"", "{", "}"}

\* the text holds AND, OR or NOT as an upper-case whole word
HasOperatorWord(t) == \E i \in 1..Len(t), w \in {"AND", "OR", "NOT"} : WordAt(t, i, w)

\* the conditions of C19 for the explicit-syntax mode
ClaimedExplicit(t) == HasQuoteCharacter(t) \/ HasOperatorWord(t) \/ Ch(t, Len(t)) = "*"

\* C19: a non-empty trimmed and capped input is passed through as one
\* normalised string exactly when it contains a straight or typographic
\* double quote, or AND, OR or NOT as an upper-case whole word, or ends with
\* '*'; every other non-empty input is tokenised and rewritten.
C19_ExplicitSyntaxDetection ==
  (op = "buildFtsQueryVariants" /\ Capped(query) # "")
  => variants = IF ClaimedExplicit(Capped(query))
                THEN [primary |-> BalanceQuotes(Normalise(Capped(query)))]
                ELSE NaturalVariants(TokensFrom(Capped(query), 1))

\* the call took the explicit-syntax branch
ExplicitMode == op = "buildFtsQueryVariants" /\ EXPLICIT_FTS_SYNTAX(Capped(query))

\* C20: in explicit-syntax mode the primary holds no typographic double
\* quote, no ';', no '--' and an even number of straight double quotes, a
\* closing quote being appended exactly when the count would otherwise be
\* odd, and no fallback is returned.
C20_ExplicitPrimarySanitised ==
  ExplicitMode
  => /\ ~Includes(variants.primary, "{") /\ ~Includes(variants.primary, "}")
     /\ ~Includes(variants.primary, ";")
     /\ ~Includes(variants.primary, "--")
     /\ QuoteCount(variants.primary) % 2 = 0
     /\ variants.primary =
          Normalise(Capped(query))
            \o (IF QuoteCount(Normalise(Capped(query))) % 2 = 1 THEN "\"" ELSE "")
     /\ ~Has(variants, "fallback")

\* an explicit query with a typographic quote, a separator and a comment
\* sequence whose quotes had to be balanced
C20_Witness ==
  /\ ExplicitMode
  /\ Includes(query, "{") /\ Includes(query, ";") /\ Includes(query, "--")
  /\ QuoteCount(Normalise(Capped(query))) % 2 = 1
  /\ variants.primary = Normalise(Capped(query)) \o "\""

\* the call took the natural-language branch (or got a blank query)
NaturalMode == op = "buildFtsQueryVariants" /\ ~EXPLICIT_FTS_SYNTAX(Capped(query))

\* a letter of any script, a digit, '-' or '_'
IsKept(c) == c \in UpperSet \cup LowerSet \cup DigitSet \cup {"^", "-", "_"}

RECURSIVE KeptIn(_, _, _)
\* the kept characters of the positions a..b of t, in order
KeptIn(t, a, b) ==
  IF a > b THEN ""
  ELSE IF a = b THEN (IF IsKept(Ch(t, a)) THEN Ch(t, a) ELSE "")
  ELSE KeptIn(t, a, (a + b) \div 2) \o KeptIn(t, (a + b) \div 2 + 1, b)

\* first positions of the maximal runs of non-blank characters of t
RunStarts(t) == {i \in 1..Len(t) : ~IsWs(Ch(t, i)) /\ (i = 1 \/ IsWs(Ch(t, i - 1)))}

\* last position of the run that starts at i
RunLast(t, i) == CHOOSE j \in i..Len(t) :
                   /\ \A k \in i..j : ~IsWs(Ch(t, k))
                   /\ (j = Len(t) \/ IsWs(Ch(t, j + 1)))

\* the runs of which a character survives
SurvivingStarts(t) == {i \in RunStarts(t) : KeptIn(t, i, RunLast(t, i)) # ""}

\* the k-th surviving token of t
SurvivingToken(t, k) ==
  LET i == CHOOSE x \in SurvivingStarts(t) :
             Cardinality({y \in SurvivingStarts(t) : y < x}) = k - 1
  IN  KeptIn(t, i, RunLast(t, i))

RECURSIVE JoinedFrom(_, _, _, _, _)
\* the surviving tokens from the k-th on, each between pre and post, sep
\* between two
JoinedFrom(t, k, pre, post, sep) ==
  IF k > Cardinality(SurvivingStarts(t)) THEN ""
  ELSE (IF k > 1 THEN sep ELSE "") \o pre \o SurvivingToken(t, k) \o post
         \o JoinedFrom(t, k + 1, pre, post, sep)

\* C21: in natural-language mode the tokens are the blank-separated pieces
\* stripped of every character that is not a letter, digit, '-' or '_', the
\* empty ones dropped; with no surviving token (also for a blank input)
\* primary is the empty phrase and there is no fallback; otherwise primary is
\* the tokens in order as "token"* joined by single spaces and fallback the
\* same tokens as token* joined by ' OR '.
C21_NaturalLanguageVariants ==
  NaturalMode
  => variants =
       IF SurvivingStarts(Capped(query)) = {} THEN [primary |-> "\"\""]
       ELSE [primary |-> JoinedFrom(Capped(query), 1, "\"", "\"*", " "),
             fallback |-> JoinedFrom(Capped(query), 1, "", "*", " OR ")]

\* two tokens survived, one of them after losing characters
C21_Witness ==
  /\ NaturalMode
  /\ query = "da*ta (x)"
  /\ variants = [primary |-> "\"data\"* \"x\"*", fallback |-> "data* OR x*"]

\* a call of one of the two search tools has returned or thrown
Searched == op \in {"searchLegislation", "buildLegalStance"}

\* the variants of the call's query
SearchVariants == buildFtsQueryVariants(searchInput.query)

\* the rows the index gives the call for an index query
IndexRows(ftsQuery) ==
  IF op = "searchLegislation"
  THEN AllRows(db, RelevanceOrder, ftsQuery, searchInput, TRUE, FALSE,
               ClampLimit(searchInput, SEARCH_DEFAULT_LIMIT, SEARCH_MAX_LIMIT))
  ELSE AllRows(db, RelevanceOrder, ftsQuery, searchInput, FALSE, TRUE,
               ClampLimit(searchInput, STANCE_DEFAULT_LIMIT, STANCE_MAX_LIMIT))

\* the rows the call returned
ReturnedRows ==
  IF op = "searchLegislation" THEN searchResult.results ELSE searchResult.results.provisions

\* primary first; fallback only after an empty primary and only when it
\* exists; a non-empty primary is the result; a blank query runs nothing
FallbackDiscipline ==
  /\ BlankQuery(searchInput)
       => ~searchResult.thrown /\ searchResult.executed = <<>> /\ ReturnedRows = <<>>
  /\ ~BlankQuery(searchInput)
       => /\ Len(searchResult.executed) \in {1, 2}
          /\ searchResult.executed[1] = SearchVariants.primary
          /\ Len(searchResult.executed) = 2
               => /\ Has(SearchVariants, "fallback")
                  /\ searchResult.executed[2] = SearchVariants.fallback
                  /\ ~Fts5Throws(SearchVariants.primary)
                  /\ IndexRows(SearchVariants.primary) = <<>>
          /\ (~Fts5Throws(SearchVariants.primary) /\ IndexRows(SearchVariants.primary) # <<>>)
               => /\ ~searchResult.thrown
                  /\ searchResult.executed = <<SearchVariants.primary>>
                  /\ ReturnedRows = IndexRows(SearchVariants.primary)

\* a non-blank query in natural-language mode got an empty result
EmptyNaturalResult ==
  /\ ~BlankQuery(searchInput) /\ ~EXPLICIT_FTS_SYNTAX(Capped(searchInput.query))
  /\ ~searchResult.thrown /\ ReturnedRows = <<>>

SameCallAgain ==
  /\ op # "idle" /\ previous # None
  /\ previous.op = op /\ previous.args = Call.args

\* a result without the data_freshness text of a search response
ExceptFreshness(c) ==
  IF c.op = "searchLegislation" /\ Has(c.result, "metadata")
  THEN [f \in DOMAIN c.result \ {"metadata"} |-> c.result[f]]
  ELSE c.result

C24_YearConversionsInverse ==
  op \in {"beToce", "ceToBe"}
  => /\ Len(converted) = 1
          => converted[1] = IF op = "beToce" THEN inputYear - 543 ELSE inputYear + 543
     /\ Len(converted) = 2
          => /\ converted[1] = IF op = "ceToBe" THEN inputYear - 543 ELSE inputYear + 543
             /\ converted[2] = inputYear

\* B.E. 2562 was converted to 2019 and back
C24_Witness ==
  op = "ceToBe" /\ inputYear = 2562 /\ converted = <<2019, 2562>>

\* the names a statute of the store is filtered by: its id and its titles
FilterNames(d) ==
  {d.id, d.title} \cup (IF Has(d, "title_en") THEN {d.title_en} ELSE {})

\* the outcome of the call with another document_id filter
SearchedWithFilter(id) ==
  IF op = "searchLegislation"
  THEN searchLegislation(db, RelevanceOrder, [searchInput EXCEPT !.document_id = id], clock)
  ELSE buildLegalStance(db, RelevanceOrder, [searchInput EXCEPT !.document_id = id], clock)

\* C25: the document_id filter of search_legislation and build_legal_stance
\* accepts a statute's id or its title: filtering by a stored statute's
\* title returns the same rows as filtering by its id, and every returned
\* row belongs to that statute.
C25_FilterByIdOrTitle ==
  (Searched /\ Has(searchInput, "document_id"))
  => \A d \in db.documents :
       searchInput.document_id \in FilterNames(d)
       => /\ searchResult = SearchedWithFilter(d.id)
          /\ ~searchResult.thrown
               => \A k \in 1..Len(ReturnedRows) : ReturnedRows[k].document_id = d.id

\* a citation of blanks and tabs only, the empty one included
BlankString(s) == \A i \in 1..Len(s) : SubSeq(s, i, i) \in {" ", "\t"}

\* C26: for an empty or whitespace-only citation validateCitationTool
\* returns valid=false, document_exists=false, provision_exists=false,
\* formatted_citation '' and warnings ['Empty citation'], and
\* formatCitationTool returns valid=false, formatted '' and error 'Empty
\* citation'; neither parses the citation or looks up a document or provision.
C26_EmptyCitationEarlyExit ==
  /\ (op = "validateCitationTool" /\ BlankString(citation))
       => /\ toolResult.valid = FALSE
          /\ toolResult.document_exists = FALSE
          /\ toolResult.provision_exists = FALSE
          /\ toolResult.formatted_citation = ""
          /\ toolResult.warnings = <<"Empty citation">>
          /\ parsed = None /\ doc = None /\ validation = None
  /\ (op = "formatCitationTool" /\ BlankString(citation))
       => /\ toolResult.valid = FALSE
          /\ toolResult.formatted = ""
          /\ Has(toolResult, "error") /\ toolResult.error = "Empty citation"
          /\ parsed = None /\ doc = None

\* validateCitationTool was given blanks and a tab
C26_Witness ==
  op = "validateCitationTool" /\ citation = " \t " /\ toolResult.warnings = <<"Empty citation">>

\* the executions of initializeDatabase that have not settled
InFlight == {p \in 1..Len(server.promises) : server.promises[p] = "pending"}

\* request r enters await dbReadyPromise in this step
StartsWaiting(r) == server.pc[r] = "none" /\ server'.pc[r] = "waiting"

\* C27: at most one initializeDatabase execution is in flight and a request
\* arriving meanwhile awaits that execution; when it fails every waiting
\* request fails, the shared promise is cleared and the next request starts
\* a fresh attempt; dbReady never becomes false again and no initialisation
\* starts after it; getDatabase is called only when dbReady is true.
C27_SingleFlightInitialisation ==
  /\ [](/\ Cardinality(InFlight) <= 1
        /\ server.dbReadyPromise # 0 => server.promises[server.dbReadyPromise] # "rejected"
        /\ \A r \in Reqs :
             /\ server.pc[r] \in {"served", "getDatabase threw"} => server.dbReady
             /\ (server.pc[r] = "served" /\ server.awaits[r] # 0)
                  => server.promises[server.awaits[r]] = "resolved"
        /\ server.db = "open" => server.dbReady)
  /\ [][/\ server.dbReady
             => server'.dbReady /\ server'.promises = server.promises
        /\ \A r \in Reqs :
             /\ (StartsWaiting(r) /\ InFlight # {})
                  => server'.awaits[r] \in InFlight /\ server'.promises = server.promises
             /\ (StartsWaiting(r) /\ InFlight = {})
                  => /\ Len(server'.promises) = Len(server.promises) + 1
                     /\ server'.awaits[r] = Len(server'.promises)
             /\ (server.pc[r] = "waiting" /\ server.promises[server.awaits[r]] = "rejected")
                  => server'.pc[r] \in {"waiting", "failed"}]_vars

\* two requests failed with the first execution and a third awaits a second
C27_Witness ==
  /\ server.promises = <<"rejected", "pending">> /\ server.dbReadyPromise = 2
  /\ \E a, b, c \in Reqs :
        /\ a # b
        /\ server.pc[a] = "failed" /\ server.awaits[a] = 1
        /\ server.pc[b] = "failed" /\ server.awaits[b] = 1
        /\ server.pc[c] = "waiting" /\ server.awaits[c] = 2

\* C28: any two consecutive requests of the fetcher start at least 500 ms
\* apart, between successive calls, between a call's last retry and the
\* first request of the next call, and between concurrent calls.
C28_RequestsHalfSecondApart == fetcher.lastGap >= 500

\* what C29 says of one call in one state: at most maxRetries + 1 requests,
\* 2 s, 4 s, 8 s before the retries, each after a 429 or >= 500 response,
\* and no call that returns such a response
RetryDiscipline(call) ==
  /\ call.requests <= Max({0, call.maxRetries + 1})
  /\ call.pc = "backoff"
       => /\ Retryable(call.status)
          /\ call.backoff = <<2000, 4000, 8000>>[call.attempt + 1]
  /\ call.pc = "returned" => ~Retryable(call.status)
  /\ (call.pc = "thrown" /\ call.error # "fetch failed")
       => call.error = "Failed to fetch <url> after " \o IntToStr(call.maxRetries) \o " retries"

ValidHasSectionAndTitle(p) ==
  p.valid => /\ Has(p, "section") /\ p.section # ""
             /\ Has(p, "title") /\ Trim(p.title) # ""

\* C30: every valid parseCitation result has a non-empty section and a
\* non-empty trimmed title; formatCitationTool never returns valid=true with
\* an empty formatted string; validateCitation never looks up a document
\* with an empty title pattern.
C30_ValidParseHasSectionAndTitle ==
  /\ op = "parseCitation" => ValidHasSectionAndTitle(parsed)
  /\ (op = "formatCitationTool" /\ toolResult.valid)
       => ValidHasSectionAndTitle(parsed) /\ toolResult.formatted # ""
  /\ (op \in {"validateCitation", "validateCitationTool"} /\ parsed # None)
       => ValidHasSectionAndTitle(parsed)

====
